---------------------------- MODULE Spec2Model ----------------------------
(***************************************************************************)
(* A model of the template-materialization pipeline of pypkgkit:          *)
(*   - extract_tarball   (cli/src/pypkgkit/scaffold.py)                    *)
(*   - scaffold          (cli/src/pypkgkit/scaffold.py)                    *)
(*   - update_project_references and init_project (scripts/init.py)        *)
(*   - git_init and setup_github (cli/src/pypkgkit/github.py)              *)
(*                                                                         *)
(* Text is modelled as a sequence of atoms.  An atom is a TLA+ string that *)
(* stands for the characters it spells; "\n" is the line separator.  The   *)
(* atoms are chosen so that every literal pattern of the code is a         *)
(* sequence of whole atoms and can only occur at atom boundaries, hence    *)
(* str.replace / `in` on characters agree with Replace / Contains on atoms.*)
(***************************************************************************)
EXTENDS Integers, Sequences, FiniteSets, TLC

VARIABLES
    (* extract_tarball *)
    members,      \* the archive: tf.getmembers()
    dest0,        \* entries of dest when extract_tarball is called
    dest,         \* entries of dest now
    ex_pc,        \* position inside extract_tarball
    ex_i,         \* index of the member the current loop is at
    ex_result,    \* outcome of the call
    (* scaffold *)
    sc_in,        \* the arguments of the call and the target's state at the call
    sc_pc,        \* position inside scaffold
    sc_owner,     \* the local github_owner
    sc_kwargs,    \* effective_kwargs
    sc_lookup,    \* outcome of the latest-release lookup (kind "none": not made)
    sc_calls,     \* external calls made so far, in order
    sc_target,    \* the target path on disk
    sc_stderr,    \* messages printed by _err, in order
    sc_rc,        \* how the call ended
    (* the project tree and the substitution engine *)
    cfg,          \* the ProjectConfig
    tree,         \* the files of the project root and their text
    tree0,        \* the tree before the first operation on it
    su_run,       \* number of update_project_references runs so far
    su_first,     \* the tree as the first run left it
    (* init_project *)
    in_pc,        \* the step init_project is about to take
    in_ok,        \* the local ok
    in_trace,     \* the steps called so far, in order
    in_fetch,     \* answer of the license API ("none": not asked)
    in_lock,      \* outcome of 'uv lock' ("none": not run)
    in_import,    \* outcome of the import check ("none": not run)
    in_stale,     \* outcome of the stale-reference scan ("none": not run)
    in_result,    \* how the call ended
    tree_lic,     \* the tree when _setup_license_if_needed was called
    (* building the ProjectConfig: prompts, run_init *)
    cf_in,        \* the path taken, the flags given, stdin and the environment
    cf_pc,        \* position on the path
    cf_i,         \* index of the field being settled
    cf_kw,        \* the value of each field so far
    cf_default,   \* the default of the prompt_text call in progress
    cf_prompts,   \* number of inputs read so far
    cf_last,      \* the last input read and what the prompt did with it
    cf_stderr,    \* what run_init wrote to stderr
    cf_config,    \* the ProjectConfig, once constructed
    cf_result,    \* how the path ended
    (* setup_ruleset *)
    rs_rulesets,  \* the rulesets the repository holds
    rs_pc,        \* position inside setup_ruleset
    rs_existing,  \* existing_id
    rs_calls,     \* number of setup_ruleset calls started
    rs_log,       \* the requests sent, in order
    rs_rc,        \* return code of the last finished call
    (* the pure functions of scripts/init.py *)
    fn_in,        \* the argument
    fn_val,       \* the value after the applications so far
    fn_trace,     \* the functions applied so far, in order
    (* git_init and setup_github *)
    vc_in,        \* the function called and its arguments
    vc_pc,        \* position inside the function
    vc_i,         \* index of the command the loop of git_init is at
    vc_cmds,      \* the subprocess commands run, each with its return code
    vc_calls,     \* the helper functions called, each with its return code
    vc_stderr,    \* messages printed by err, in order
    vc_rc         \* how the call ended

exVars == <<members, dest0, dest, ex_pc, ex_i, ex_result>>

scVars == <<sc_in, sc_pc, sc_owner, sc_kwargs, sc_lookup, sc_calls, sc_target,
            sc_stderr, sc_rc>>

suVars == <<cfg, tree, tree0, su_run, su_first>>

inVars == <<in_pc, in_ok, in_trace, in_fetch, in_lock, in_import, in_stale,
            in_result, tree_lic>>

cfVars == <<cf_in, cf_pc, cf_i, cf_kw, cf_default, cf_prompts, cf_last,
            cf_stderr, cf_config, cf_result>>

rsVars == <<rs_rulesets, rs_pc, rs_existing, rs_calls, rs_log, rs_rc>>

fnVars == <<fn_in, fn_val, fn_trace>>

vcVars == <<vc_in, vc_pc, vc_i, vc_cmds, vc_calls, vc_stderr, vc_rc>>

auxVars == <<cfVars, rsVars, fnVars, vcVars>>

vars == <<exVars, scVars, suVars, inVars, auxVars>>

(***************************************************************************)
(* The variables of an operation that is not the one under study.          *)
(***************************************************************************)
CfIdle ==
    /\ cf_in = [none |-> TRUE]
    /\ cf_pc = "idle"
    /\ cf_i = 1
    /\ cf_kw = <<>>
    /\ cf_default = [given |-> FALSE, text |-> <<>>]
    /\ cf_prompts = 0
    /\ cf_last = [kind |-> "none"]
    /\ cf_stderr = <<>>
    /\ cf_config = [kind |-> "none"]
    /\ cf_result = [kind |-> "none"]

RsIdle ==
    /\ rs_rulesets = {}
    /\ rs_pc = "idle"
    /\ rs_existing = {}
    /\ rs_calls = 0
    /\ rs_log = <<>>
    /\ rs_rc = 0

FnIdle ==
    /\ fn_in = [none |-> TRUE]
    /\ fn_val = [none |-> TRUE]
    /\ fn_trace = <<>>

VcIdle ==
    /\ vc_in = [op |-> "none"]
    /\ vc_pc = "idle"
    /\ vc_i = 1
    /\ vc_cmds = <<>>
    /\ vc_calls = <<>>
    /\ vc_stderr = <<>>
    /\ vc_rc = [kind |-> "none"]

AuxIdle == CfIdle /\ RsIdle /\ FnIdle /\ VcIdle

ExIdle ==
    /\ members = <<>>
    /\ dest0 = {}
    /\ dest = {}
    /\ ex_pc = "idle"
    /\ ex_i = 1
    /\ ex_result = [kind |-> "none"]

ScIdle ==
    /\ sc_in = [none |-> TRUE]
    /\ sc_pc = "idle"
    /\ sc_owner = "None"
    /\ sc_kwargs = [none |-> TRUE]
    /\ sc_lookup = [kind |-> "none"]
    /\ sc_calls = <<>>
    /\ sc_target = "absent"
    /\ sc_stderr = <<>>
    /\ sc_rc = [kind |-> "running"]

SuIdle ==
    /\ cfg = [none |-> TRUE]
    /\ tree = <<>>
    /\ tree0 = <<>>
    /\ su_run = 0
    /\ su_first = <<>>

InIdle ==
    /\ in_pc = "idle"
    /\ in_ok = TRUE
    /\ in_trace = <<>>
    /\ in_fetch = "none"
    /\ in_lock = "none"
    /\ in_import = "none"
    /\ in_stale = "none"
    /\ in_result = [kind |-> "running"]
    /\ tree_lic = <<>>

(***************************************************************************)
(* Bounds                                                                  *)
(***************************************************************************)
MaxMembers == 3

(***************************************************************************)
(* Sequence helpers                                                        *)
(***************************************************************************)
Range(s) == {s[i] : i \in 1..Len(s)}

SeqsUpTo(S, n) == UNION {[1..k -> S] : k \in 0..n}

Prefix(s, k) == SubSeq(s, 1, k)

(***************************************************************************)
(* Text: sequences of atoms                                                *)
(***************************************************************************)
\* text[i:].startswith(pat)
MatchAt(text, pat, i) ==
    /\ i + Len(pat) - 1 <= Len(text)
    /\ SubSeq(text, i, i + Len(pat) - 1) = pat

\* pat in text
Contains(text, pat) == \E i \in 1..Len(text) : MatchAt(text, pat, i)

RECURSIVE ReplaceFrom(_, _, _, _)
\* text[i..] with the occurrences of old replaced, found left to right
ReplaceFrom(text, old, new, i) ==
    LET hits == { k \in i..Len(text) : MatchAt(text, old, k) }
    IN  IF hits = {} THEN SubSeq(text, i, Len(text))
        ELSE LET k == CHOOSE h \in hits : \A g \in hits : h <= g
             IN  SubSeq(text, i, k - 1) \o new
                     \o ReplaceFrom(text, old, new, k + Len(old))

\* text.replace(old, new): every non-overlapping occurrence, left to right;
\* what was inserted is not scanned again.  old is never empty here.
Replace(text, old, new) == ReplaceFrom(text, old, new, 1)

\* text.replace(old, new, 1): the first occurrence only
ReplaceFirst(text, old, new) ==
    IF Contains(text, old)
    THEN LET i == CHOOSE k \in 1..Len(text) :
                      /\ MatchAt(text, old, k)
                      /\ \A j \in 1..(k - 1) : ~MatchAt(text, old, j)
         IN  SubSeq(text, 1, i - 1) \o new \o SubSeq(text, i + Len(old), Len(text))
    ELSE text

RECURSIVE MapAtoms(_, _)
\* the text with every atom a replaced by f[a] where f is defined
MapAtoms(text, f) ==
    IF text = <<>> THEN <<>>
    ELSE <<IF Head(text) \in DOMAIN f THEN f[Head(text)] ELSE Head(text)>>
             \o MapAtoms(Tail(text), f)

(***************************************************************************)
(* Name transforms (scripts/init.py)                                       *)
(***************************************************************************)
\* name.replace('-', '_')
to_snake(name) == Replace(name, <<"-">>, <<"_">>)

\* name.replace('_', '-', 1): only the first underscore
to_kebab_first(name) == ReplaceFirst(name, <<"_">>, <<"-">>)

\* name.replace('_', '-')
to_kebab(name) == Replace(name, <<"_">>, <<"-">>)

\* str.title() on a word atom: the first letter upper-cased.  Word atoms of
\* a name are separated by '-', '_' or digits, so each starts a word.
TitleOf ==
    [ a \in {"my", "pkg", "x", "python", "package", "template", "uv", "tests",
             "os", "michaelellis003"} |->
        CASE a = "my" -> "My"
          [] a = "pkg" -> "Pkg"
          [] a = "x" -> "X"
          [] a = "python" -> "Python"
          [] a = "package" -> "Package"
          [] a = "template" -> "Template"
          [] a = "uv" -> "Uv"
          [] a = "tests" -> "Tests"
          [] a = "os" -> "Os"
          [] a = "michaelellis003" -> "Michaelellis003" ]

\* name.replace('-', ' ').replace('_', ' ').title()
to_title(name) ==
    MapAtoms(Replace(Replace(name, <<"-">>, <<" ">>), <<"_">>, <<" ">>), TitleOf)

\* the two replacements in the other order: quotes first, then backslashes
escape_toml_quotes_first(value) ==
    Replace(Replace(value, <<"\"">>, <<"\\", "\"">>), <<"\\">>, <<"\\", "\\">>)

\* value.replace('\\', '\\\\').replace('"', '\\"')
escape_toml_string(value) ==
    Replace(Replace(value, <<"\\">>, <<"\\", "\\">>), <<"\"">>, <<"\\", "\"">>)

(***************************************************************************)
(* Validation (scripts/init.py)                                            *)
(***************************************************************************)
\* Atoms by the characters they spell.
LowerWordAtoms ==
    { "my", "pkg", "x", "python", "package", "template", "uv", "tests", "jane",
      "abc", "ast", "asyncio", "collections", "contextlib", "copy", "csv",
      "dataclasses", "datetime", "decimal", "enum", "functools", "hashlib",
      "http", "importlib", "inspect", "io", "itertools", "json", "logging",
      "math", "multiprocessing", "operator", "os", "pathlib", "pickle",
      "platform", "pprint", "queue", "random", "re", "secrets", "shutil",
      "signal", "socket", "string", "struct", "subprocess", "sys", "test",
      "textwrap", "threading", "time", "tomllib", "typing", "unittest", "uuid",
      "warnings", "xml", "zipfile" }

\* lowercase letters followed by digits
LowerDigitAtoms == { "michaelellis003", "base64", "sqlite3" }

DigitAtoms == { "2" }

\* letters with an upper-case one
UpperWordAtoms == { "Acme" }

WhitespaceAtoms == { " ", "  ", "    ", "      ", "\n", "\r", "\t" }

STDLIB_NAMES ==
    { <<a>> : a \in
        { "abc", "ast", "asyncio", "base64", "collections", "contextlib",
          "copy", "csv", "dataclasses", "datetime", "decimal", "enum",
          "functools", "hashlib", "http", "importlib", "inspect", "io",
          "itertools", "json", "logging", "math", "multiprocessing",
          "operator", "os", "pathlib", "pickle", "platform", "pprint", "queue",
          "random", "re", "secrets", "shutil", "signal", "socket", "sqlite3",
          "string", "struct", "subprocess", "sys", "test", "textwrap",
          "threading", "time", "tomllib", "typing", "unittest", "uuid",
          "warnings", "xml", "zipfile" } }

\* The template's own names and the strings the rules look for.
TPL_SNAKE == <<"python", "_", "package", "_", "template">>
TPL_KEBAB == <<"python", "-", "package", "-", "template">>
TPL_TITLE == <<"Python", " ", "Package", " ", "Template">>
TPL_URL_OLD == <<"michaelellis003", "/">> \o TPL_KEBAB
TPL_URL == <<"michaelellis003", "/", "uv", "-", "python", "-", "template">>
TPL_PAGES ==
    <<"michaelellis003", ".github.io", "/", "uv", "-", "python", "-", "template">>
TPL_AUTHOR == <<"name = ", "\"", "Michael Ellis", "\"">>
TPL_EMAIL == <<"email = ", "\"", "michaelellis003", "@", "gmail.com", "\"">>
TPL_MENTION == <<"@", "michaelellis003">>
TPL_OWNER == <<"michaelellis003">>
TEMPLATE_DESC ==
    <<"A production-ready template for starting new Python packages.">>

\* In Python `$` also matches just before a newline that ends the string.
BeforeFinalNewline(v) ==
    IF Len(v) > 0 /\ v[Len(v)] = "\n" THEN SubSeq(v, 1, Len(v) - 1) ELSE v

\* _NAME_RE.match(name): ^[a-z]([a-z0-9_-]*[a-z0-9])?$
NameReMatch(name) ==
    LET v == BeforeFinalNewline(name)
    IN  /\ Len(v) > 0
        /\ \A i \in 1..Len(v) :
               v[i] \in LowerWordAtoms \cup LowerDigitAtoms \cup DigitAtoms
                          \cup {"-", "_"}
        /\ v[1] \in LowerWordAtoms \cup LowerDigitAtoms
        /\ v[Len(v)] \in LowerWordAtoms \cup LowerDigitAtoms \cup DigitAtoms

\* _GITHUB_OWNER_RE.match(owner): ^[a-zA-Z0-9]([a-zA-Z0-9-]*[a-zA-Z0-9])?$
OwnerReMatch(owner) ==
    LET v == BeforeFinalNewline(owner)
        alnum == LowerWordAtoms \cup LowerDigitAtoms \cup DigitAtoms
                   \cup UpperWordAtoms
    IN  /\ Len(v) > 0
        /\ \A i \in 1..Len(v) : v[i] \in alnum \cup {"-"}
        /\ v[1] \in alnum
        /\ v[Len(v)] \in alnum

\* validate_name: "ok", or the ValueError it raises
validate_name(name) ==
    IF ~NameReMatch(name) THEN "invalid_shape"
    ELSE IF name \in {TPL_KEBAB, TPL_SNAKE} THEN "template_default"
    ELSE IF to_snake(name) \in STDLIB_NAMES THEN "stdlib_shadow"
    ELSE "ok"

\* validate_email
validate_email(email) ==
    IF "@" \notin Range(email) THEN "no_at"
    ELSE IF "\n" \in Range(email) \/ "\r" \in Range(email) THEN "multiline"
    ELSE "ok"

\* validate_github_owner
validate_github_owner(owner) ==
    IF OwnerReMatch(owner) THEN "ok" ELSE "invalid_shape"

\* validate_author_name
validate_author_name(name) ==
    IF "\n" \in Range(name) \/ "\r" \in Range(name) THEN "multiline" ELSE "ok"

\* validate_description
validate_description(description) ==
    IF \A i \in 1..Len(description) : description[i] \in WhitespaceAtoms
    THEN "empty"
    ELSE IF "\n" \in Range(description) \/ "\r" \in Range(description)
    THEN "multiline"
    ELSE "ok"

\* ProjectConfig with the fields __post_init__ derives
ProjectConfig(name, author, email, owner, descr, license, pypi) ==
    [ name         |-> name,
      author       |-> author,
      email        |-> email,
      github_owner |-> owner,
      description  |-> descr,
      license_key  |-> license,
      enable_pypi  |-> pypi,
      snake_name   |-> to_snake(name),
      kebab_name   |-> to_kebab(name),
      title_name   |-> to_title(name),
      github_repo  |-> owner \o <<"/">> \o to_kebab(name) ]

(***************************************************************************)
(* The project tree: a function from the paths of its files to their text. *)
(* A path is a sequence of parts, a part a sequence of atoms; a directory  *)
(* exists when a file lies below it.                                       *)
(***************************************************************************)
P_README == << <<"README", ".md">> >>
P_PYPROJECT == << <<"pyproject", ".toml">> >>
P_CODEOWNERS == << <<".github">>, <<"CODEOWNERS">> >>
P_META == << <<"recipe">>, <<"meta", ".yaml">> >>
P_CHANGELOG == << <<"CHANGELOG", ".md">> >>

EXCLUDE_DIRS ==
    { <<".git">>, <<".venv">>, <<".ruff_cache">>, <<".pytest_cache">>,
      <<"__pycache__">>, <<"site">>, <<"dist">>, <<"build">>, <<"cli">> }

EXCLUDE_NAMES ==
    { <<"uv", ".lock">>, <<"CHANGELOG", ".md">>, <<"init", ".sh">>,
      <<"init", ".py">>, <<".coverage">> }

BINARY_EXTS ==
    { ".png", ".jpg", ".gif", ".ico", ".gz", ".zip", ".whl", ".tar", ".inv",
      ".so", ".dylib" }

\* path.name
PathName(path) == path[Len(path)]

\* path.suffix: the last dot-led piece of a name that does not start with it
PathSuffix(path) ==
    LET n == PathName(path)
    IN  IF Len(n) >= 2 /\ n[Len(n)] \in
              BINARY_EXTS \cup {".py", ".toml", ".yml", ".yaml", ".md", ".cfg",
                                ".json", ".sh", ".lock", ".txt"}
        THEN n[Len(n)] ELSE ""

\* _is_template_test_path(parts)
IsTemplateTestPath(path) ==
    Len(path) >= 2 /\ SubSeq(path, 1, 2) = << <<"tests">>, <<"template">> >>

\* find_project_files(root), as a set: the order of the walk does not
\* matter since every rule visits every file.
find_project_files(t) ==
    { path \in DOMAIN t :
        /\ \A i \in 1..Len(path) : path[i] \notin EXCLUDE_DIRS
        /\ ~IsTemplateTestPath(path)
        /\ PathName(path) \notin EXCLUDE_NAMES
        /\ PathSuffix(path) \notin BINARY_EXTS }

\* replace_in_file(path, old, new); the write is skipped when nothing changed
replace_in_file(t, path, old, new) ==
    [t EXCEPT ![path] = Replace(@, old, new)]

\* replace_in_files(files, old, new)
replace_in_files(t, files, old, new) ==
    [path \in DOMAIN t |->
        IF path \in files THEN Replace(t[path], old, new) ELSE t[path]]

\* replace_in_file on a file that may be missing: `if path.exists():`
ReplaceIfExists(t, path, old, new) ==
    IF path \in DOMAIN t THEN replace_in_file(t, path, old, new) ELSE t

\* update_project_references(root, config, files)
update_project_references(t, config, files) ==
    LET t1 == replace_in_files(t, files, TPL_URL_OLD, config.github_repo)
        t2 == replace_in_files(t1, files, TPL_URL, config.github_repo)
        t3 == ReplaceIfExists(t2, P_PYPROJECT, TPL_AUTHOR,
                  <<"name = ", "\"">> \o escape_toml_string(config.author)
                      \o <<"\"">>)
        t4 == ReplaceIfExists(t3, P_PYPROJECT, TPL_EMAIL,
                  <<"email = ", "\"">> \o escape_toml_string(config.email)
                      \o <<"\"">>)
        t5 == ReplaceIfExists(t4, P_CODEOWNERS, TPL_MENTION,
                  <<"@">> \o config.github_owner)
        t6 == replace_in_files(t5, files, TPL_PAGES,
                  config.github_owner \o <<".github.io", "/">>
                      \o config.kebab_name)
        t7 == replace_in_files(t6, files, TPL_SNAKE, config.snake_name)
        t8 == replace_in_files(t7, files, TPL_KEBAB, config.kebab_name)
        t9 == replace_in_files(t8, files, TPL_TITLE, config.title_name)
    IN  ReplaceIfExists(t9, P_META, TPL_OWNER, config.github_owner)

\* update_description(root, config)
update_description(t, config) ==
    LET t1 == ReplaceIfExists(t, P_PYPROJECT, TEMPLATE_DESC,
                  escape_toml_string(config.description))
    IN  ReplaceIfExists(t1, P_META, TEMPLATE_DESC, config.description)

(***************************************************************************)
(* extract_tarball                                                         *)
(***************************************************************************)
\* An archive member: its name split as pathlib splits it (Path(name).parts),
\* whether it is a directory, and the payload of a regular file.
Member(parts, isdir, data) == [parts |-> parts, isdir |-> isdir, data |-> data]

\* The members archives are built from.  Directory names (a, b) and file
\* names (f) are disjoint, so no member asks for a file where a directory is.
MemberSet ==
    { Member(<<"a">>, TRUE, 0),
      Member(<<"a", "f">>, FALSE, 1),
      Member(<<"a", "f">>, FALSE, 2),
      Member(<<"b", "f">>, FALSE, 1),
      Member(<<"f">>, FALSE, 1),
      Member(<<"..", "f">>, FALSE, 1),
      Member(<<"a", "..", "f">>, FALSE, 1),
      Member(<<"/", "f">>, FALSE, 1) }

\* The tarball _download_and_extract puts in the directory it extracts into.
TarballEntry == [path |-> <<"template.tar.gz">>, isdir |-> FALSE, data |-> 9]

\* member_path.is_absolute()
IsAbsolute(parts) == Len(parts) > 0 /\ parts[1] = "/"

\* '..' in member_path.parts, checked on the first segment only
IsTraversalFirstOnly(parts) ==
    IsAbsolute(parts) \/ (Len(parts) > 0 /\ parts[1] = "..")

\* member_path.is_absolute() or '..' in member_path.parts
IsTraversal(parts) == IsAbsolute(parts) \/ ".." \in Range(parts)

\* What tf.extractall writes for one member: the missing parent directories
\* and the member itself; a later member with the same path replaces it.
WriteMember(fs, m) ==
    LET p     == m.parts
        dirs  == { [path |-> Prefix(p, k), isdir |-> TRUE, data |-> 0] :
                       k \in 1..(Len(p) - 1) }
        self  == [path |-> p, isdir |-> m.isdir, data |-> m.data]
        kept  == { e \in fs : e.path # p }
    IN  kept \cup { d \in dirs : \A e \in kept : e.path # d.path } \cup {self}

\* [p for p in dest.iterdir()], files included
AllTopLevel(fs) == { e \in fs : Len(e.path) = 1 }

\* [p for p in dest.iterdir() if p.is_dir()]
Children(fs) == { e \in fs : Len(e.path) = 1 /\ e.isdir }

ExInit ==
    /\ ScIdle
    /\ SuIdle
    /\ InIdle
    /\ AuxIdle
    /\ members \in SeqsUpTo(MemberSet, MaxMembers)
    /\ dest0 \in { {}, {TarballEntry} }
    /\ dest = dest0
    /\ ex_pc = "check"
    /\ ex_i = 1
    /\ ex_result = [kind |-> "none"]

\* for member in tf.getmembers(): raise ValueError on a traversal path
CheckMember ==
    /\ ex_pc = "check"
    /\ IF ex_i > Len(members)
       THEN /\ ex_pc' = "extract"
            /\ ex_i' = 1
            /\ UNCHANGED ex_result
       ELSE IF IsTraversal(members[ex_i].parts)
            THEN /\ ex_pc' = "done"
                 /\ ex_result' = [kind |-> "ValueError", why |-> "traversal"]
                 /\ UNCHANGED ex_i
            ELSE /\ ex_i' = ex_i + 1
                 /\ UNCHANGED <<ex_pc, ex_result>>
    /\ UNCHANGED <<members, dest0, dest>>
    /\ UNCHANGED <<scVars, suVars, inVars, auxVars>>

\* tf.extractall(dest, filter='data'), one member at a time
ExtractMember ==
    /\ ex_pc = "extract"
    /\ IF ex_i > Len(members)
       THEN /\ ex_pc' = "count"
            /\ UNCHANGED <<ex_i, dest>>
       ELSE /\ dest' = WriteMember(dest, members[ex_i])
            /\ ex_i' = ex_i + 1
            /\ UNCHANGED ex_pc
    /\ UNCHANGED <<members, dest0, ex_result>>
    /\ UNCHANGED <<scVars, suVars, inVars, auxVars>>

\* children = [...]; if len(children) != 1: raise ValueError; return children[0]
CountChildren ==
    /\ ex_pc = "count"
    /\ LET children == Children(dest)
       IN  IF Cardinality(children) # 1
           THEN ex_result' = [kind |-> "ValueError", why |-> "count"]
           ELSE ex_result' = [kind |-> "ok",
                              dir |-> (CHOOSE c \in children : TRUE).path]
    /\ ex_pc' = "done"
    /\ UNCHANGED <<members, dest0, dest, ex_i>>
    /\ UNCHANGED <<scVars, suVars, inVars, auxVars>>

ExNext == CheckMember \/ ExtractMember \/ CountChildren

SpecExtract == ExInit /\ [][ExNext]_vars

(***************************************************************************)
(* Claims about extract_tarball                                            *)
(***************************************************************************)
\* The archive has a member whose path is absolute or has a '..' segment.
UnsafeArchive ==
    \E i \in 1..Len(members) :
        LET p == members[i].parts
        IN  (Len(p) > 0 /\ p[1] = "/") \/ (\E k \in 1..Len(p) : p[k] = "..")

\* The top-level directories the destination holds.
TopDirs == { e.path[1] : e \in { x \in dest : Len(x.path) = 1 /\ x.isdir } }

\* The payload the archive gives the file at path p: its last member there.
ArchivePayload(p) ==
    LET at == { i \in 1..Len(members) : members[i].parts = p }
    IN  members[CHOOSE i \in at : \A j \in at : j <= i].data

\* The files of the archive below top-level directory d.
ArchiveFilesUnder(d) ==
    { members[i].parts : i \in { j \in 1..Len(members) :
          /\ ~members[j].isdir
          /\ Len(members[j].parts) > 1
          /\ members[j].parts[1] = d } }

\* C1: for an archive with a member path that is absolute or contains '..',
\* extract_tarball raises ValueError, and at no moment of the call has any
\* member (also none of those before the offending one) been written under
\* the destination.
C1_TraversalRaisesBeforeAnyWrite ==
    UnsafeArchive =>
        /\ dest = dest0
        /\ ex_pc \in {"check", "done"}
        /\ ex_pc = "done" =>
               ex_result = [kind |-> "ValueError", why |-> "traversal"]

\* C1 witness: the call has raised on an archive whose first member is
\* harmless and whose later member is the offending one.
C1_Witness ==
    /\ ex_pc = "done"
    /\ UnsafeArchive
    /\ Len(members) >= 2
    /\ members[1].parts = <<"a", "f">>
    /\ ex_result.kind = "ValueError"
    /\ dest = dest0

\* C2: once a traversal-free archive is unpacked, extract_tarball raises
\* ValueError when the destination holds zero or several top-level
\* directories, and returns the single one, holding exactly the archive's
\* files below it with the archive's payloads, when it holds one.
C2_SingleTopLevelDirectory ==
    (ex_pc = "done" /\ ~UnsafeArchive) =>
        IF Cardinality(TopDirs) # 1
        THEN ex_result = [kind |-> "ValueError", why |-> "count"]
        ELSE /\ ex_result.kind = "ok"
             /\ ex_result.dir = <<CHOOSE d \in TopDirs : TRUE>>
             /\ LET d     == ex_result.dir[1]
                    files == { e \in dest : ~e.isdir /\ Len(e.path) > 1
                                                     /\ e.path[1] = d }
                IN  /\ { e.path : e \in files } = ArchiveFilesUnder(d)
                    /\ \A e \in files : e.data = ArchivePayload(e.path)

\* C2 witness: a directory was returned although the destination also holds
\* top-level files, and a file in it was written twice by the archive.
C2_Witness ==
    /\ ex_pc = "done"
    /\ ex_result.kind = "ok"
    /\ ex_result.dir = <<"a">>
    /\ dest0 = {TarballEntry}
    /\ members = << Member(<<"a", "f">>, FALSE, 1), Member(<<"f">>, FALSE, 1),
                    Member(<<"a", "f">>, FALSE, 2) >>

(***************************************************************************)
(* scaffold                                                                *)
(***************************************************************************)
\* _HTTP_FORBIDDEN
HTTP_FORBIDDEN == 403

\* Messages handed to _err, as the text pieces the claims look for.
MsgAlreadyExists == <<"target_path", " already exists">>
MsgGhNotInstalled == <<"gh CLI is not installed. Install from https://cli.github.com">>
MsgGhNotAuthenticated == <<"gh is not authenticated. Run: gh auth login">>
MsgNoOwner == <<"Could not detect GitHub username. ", "Use --github-owner to specify.">>
MsgRateLimit ==
    <<"GitHub API ", "rate limit", " exceeded. ", "Use ", "--template-version",
      " to skip the API call.">>
MsgApiError == <<"GitHub API error: ", "exc">>
MsgNetworkError == <<"Network error: ", "exc.reason">>
MsgDownloadFailed == <<"Failed to download template: ", "exc">>
MsgExtractFailed == <<"exc">>
MsgInitMissing == <<"scripts/init.py not found in ", "target_path">>
MsgInitFailed == <<"Project initialization failed">>
MsgGitMissing == <<"git is not installed. Install from https://git-scm.com">>
MsgGitInitFailed == <<"git init failed">>

\* What get_latest_release_tag can do: return a tag, raise HTTPError with a
\* status, raise URLError (no connection, timeout while connecting), raise
\* TimeoutError while the body is read, fail to decode the body, or find no
\* 'tag_name' in it.
LookupOutcomes ==
    { [kind |-> "tag"],
      [kind |-> "HTTPError", code |-> 403],
      [kind |-> "HTTPError", code |-> 500],
      [kind |-> "URLError"],
      [kind |-> "TimeoutError"],
      [kind |-> "JSONDecodeError"],
      [kind |-> "KeyError"] }

\* except HTTPError: every status reported as a generic API error
TagErrorMessageGeneric(o) ==
    IF o.kind = "HTTPError" THEN MsgApiError ELSE MsgNetworkError

\* The except clauses around _resolve_tag: the message for a caught failure.
TagErrorMessage(o) ==
    IF o.kind = "HTTPError"
    THEN IF o.code = HTTP_FORBIDDEN THEN MsgRateLimit ELSE MsgApiError
    ELSE MsgNetworkError

\* The failures of the lookup that the except clauses catch.
TagErrorCaught(o) == o.kind \in {"HTTPError", "URLError"}

\* An external call: a subprocess, a network request, a file-system change
\* or the template's initializer, with the argument the claims look at.
Call(fn, arg) == [fn |-> fn, arg |-> arg]

\* A call that also carries a name: the package name of the config that
\* run_init receives, the repo_name that setup_github receives.
CallNamed(fn, arg, name) == [fn |-> fn, arg |-> arg, name |-> name]

\* The functions called so far.
Called == { sc_calls[i].fn : i \in 1..Len(sc_calls) }

\* `not x` for a value that is None, '' or a non-empty string
Falsy(x) == x \in {"None", ""}

\* return _err(msg)
ScFail(msg) ==
    /\ sc_stderr' = Append(sc_stderr, <<"error: ">> \o msg)
    /\ sc_rc' = [kind |-> "returned", code |-> 1]
    /\ sc_pc' = "done"

\* an exception that no handler of scaffold catches
ScRaise(exc) ==
    /\ sc_rc' = [kind |-> "raised", exc |-> exc]
    /\ sc_pc' = "done"
    /\ UNCHANGED sc_stderr

ScInit ==
    /\ ExIdle
    /\ SuIdle
    /\ InIdle
    /\ AuxIdle
    /\ sc_in \in [ github      : BOOLEAN,
                   owner       : {"None", "alice"},
                   kw_owner    : {"absent", "None", "alice", "carol"},
                   kw_name     : {"None", "my-pkg"},
                   kw_rest     : BOOLEAN,
                   pinned      : BOOLEAN,
                   interactive : BOOLEAN,
                   exists      : BOOLEAN,
                   dirname     : {"my-pkg", "proj"} ]
    /\ sc_pc = "start"
    /\ sc_owner = sc_in.owner
    /\ sc_kwargs = [owner |-> sc_in.kw_owner, name |-> sc_in.kw_name,
                    rest |-> sc_in.kw_rest]
    /\ sc_lookup = [kind |-> "none"]
    /\ sc_calls = <<>>
    /\ sc_target = IF sc_in.exists THEN "preexisting" ELSE "absent"
    /\ sc_stderr = <<>>
    /\ sc_rc = [kind |-> "running"]

\* the early check is left to move_template_to_target
CheckTargetLate ==
    /\ sc_pc = "start"
    /\ sc_pc' = "gh"
    /\ UNCHANGED <<sc_in, sc_owner, sc_kwargs, sc_lookup, sc_calls, sc_target,
                   sc_stderr, sc_rc>>
    /\ UNCHANGED <<exVars, suVars, inVars, auxVars>>

\* if target_path.exists(): return _err('... already exists')
CheckTarget ==
    /\ sc_pc = "start"
    /\ IF sc_target # "absent"
       THEN ScFail(MsgAlreadyExists)
       ELSE /\ sc_pc' = "gh"
            /\ UNCHANGED <<sc_stderr, sc_rc>>
    /\ UNCHANGED <<sc_in, sc_owner, sc_kwargs, sc_lookup, sc_calls, sc_target>>
    /\ UNCHANGED <<exVars, suVars, inVars, auxVars>>

\* the gh checks are left to setup_github
EarlyGhChecksLate ==
    /\ sc_pc = "gh"
    /\ sc_pc' = "inject"
    /\ UNCHANGED <<sc_in, sc_owner, sc_kwargs, sc_lookup, sc_calls, sc_target,
                   sc_stderr, sc_rc>>
    /\ UNCHANGED <<exVars, suVars, inVars, auxVars>>

\* if github: check_gh_installed, check_gh_authenticated, detect_gh_owner
EarlyGhChecks ==
    /\ sc_pc = "gh"
    /\ IF ~sc_in.github
       THEN /\ sc_pc' = "inject"
            /\ UNCHANGED <<sc_owner, sc_calls, sc_stderr, sc_rc>>
       ELSE \E installed \in BOOLEAN, authed \in BOOLEAN,
               detected \in {"None", "bob"} :
              IF ~installed
              THEN /\ sc_calls' = Append(sc_calls, Call("check_gh_installed", ""))
                   /\ ScFail(MsgGhNotInstalled)
                   /\ UNCHANGED sc_owner
              ELSE IF ~authed
              THEN /\ sc_calls' = sc_calls \o
                         << Call("check_gh_installed", ""),
                            Call("check_gh_authenticated", "") >>
                   /\ ScFail(MsgGhNotAuthenticated)
                   /\ UNCHANGED sc_owner
              ELSE IF ~Falsy(sc_owner)
              THEN /\ sc_calls' = sc_calls \o
                         << Call("check_gh_installed", ""),
                            Call("check_gh_authenticated", "") >>
                   /\ sc_pc' = "inject"
                   /\ UNCHANGED <<sc_owner, sc_stderr, sc_rc>>
              ELSE /\ sc_calls' = sc_calls \o
                         << Call("check_gh_installed", ""),
                            Call("check_gh_authenticated", ""),
                            Call("detect_gh_owner", "") >>
                   /\ sc_owner' = detected
                   /\ IF Falsy(detected)
                      THEN ScFail(MsgNoOwner)
                      ELSE /\ sc_pc' = "inject"
                           /\ UNCHANGED <<sc_stderr, sc_rc>>
    /\ UNCHANGED <<sc_in, sc_kwargs, sc_lookup, sc_target>>
    /\ UNCHANGED <<exVars, suVars, inVars, auxVars>>

\* effective_kwargs.setdefault('github_owner', github_owner)
SetDefaultOwner(kw, owner) ==
    IF kw.owner = "absent" THEN [kw EXCEPT !.owner = owner] ELSE kw

\* effective_kwargs = dict(config_kwargs or {}); inject the owner
InjectOwner ==
    /\ sc_pc = "inject"
    /\ sc_kwargs' = IF sc_in.github /\ ~Falsy(sc_owner)
                    THEN SetDefaultOwner(sc_kwargs, sc_owner)
                    ELSE sc_kwargs
    /\ sc_pc' = "resolve"
    /\ UNCHANGED <<sc_in, sc_owner, sc_lookup, sc_calls, sc_target, sc_stderr,
                   sc_rc>>
    /\ UNCHANGED <<exVars, suVars, inVars, auxVars>>

\* tag = _resolve_tag(template_version), with its except clauses
ResolveTag ==
    /\ sc_pc = "resolve"
    /\ IF sc_in.pinned
       THEN /\ sc_pc' = "download"
            /\ UNCHANGED <<sc_lookup, sc_calls, sc_stderr, sc_rc>>
       ELSE \E o \in LookupOutcomes :
              /\ sc_lookup' = o
              /\ sc_calls' = Append(sc_calls, Call("get_latest_release_tag", ""))
              /\ IF o.kind = "tag"
                 THEN /\ sc_pc' = "download"
                      /\ UNCHANGED <<sc_stderr, sc_rc>>
                 ELSE IF TagErrorCaught(o)
                 THEN ScFail(TagErrorMessage(o))
                 ELSE ScRaise(o.kind)
    /\ UNCHANGED <<sc_in, sc_owner, sc_kwargs, sc_target>>
    /\ UNCHANGED <<exVars, suVars, inVars, auxVars>>

\* rc = _download_and_extract(tag, target_path): download_tarball,
\* extract_tarball, move_template_to_target, each with its except clause.
\* `appeared`: another process created the target after the early check.
DownloadAndExtract ==
    /\ sc_pc = "download"
    /\ \E downloaded \in BOOLEAN, extracted \in BOOLEAN, appeared \in BOOLEAN :
         IF ~downloaded
         THEN /\ sc_calls' = Append(sc_calls, Call("download_tarball", ""))
              /\ ScFail(MsgDownloadFailed)
              /\ UNCHANGED sc_target
         ELSE IF ~extracted
         THEN /\ sc_calls' = sc_calls \o << Call("download_tarball", ""),
                                           Call("extract_tarball", "") >>
              /\ ScFail(MsgExtractFailed)
              /\ UNCHANGED sc_target
         ELSE /\ sc_calls' = sc_calls \o
                    << Call("download_tarball", ""), Call("extract_tarball", ""),
                       Call("move_template_to_target", "") >>
              /\ IF sc_target # "absent" \/ appeared
                 THEN /\ ScFail(MsgAlreadyExists)
                      /\ sc_target' = IF sc_target = "absent" THEN "foreign"
                                      ELSE sc_target
                 ELSE /\ sc_target' = "template"
                      /\ sc_pc' = "load"
                      /\ UNCHANGED <<sc_stderr, sc_rc>>
    /\ UNCHANGED <<sc_in, sc_owner, sc_kwargs, sc_lookup>>
    /\ UNCHANGED <<exVars, suVars, inVars, auxVars>>

\* init_mod = load_init_module(target_path), except FileNotFoundError
LoadInit ==
    /\ sc_pc = "load"
    /\ sc_calls' = Append(sc_calls, Call("load_init_module", ""))
    /\ \E found \in BOOLEAN :
         IF found
         THEN /\ sc_pc' = IF sc_in.interactive THEN "prompt" ELSE "init"
              /\ UNCHANGED <<sc_stderr, sc_rc>>
         ELSE ScFail(MsgInitMissing)
    /\ UNCHANGED <<sc_in, sc_owner, sc_kwargs, sc_lookup, sc_target>>
    /\ UNCHANGED <<exVars, suVars, inVars, auxVars>>

\* _prompt_missing_config: every field that is missing or falsy is prompted
\* for; prompt_text returns only non-empty values its validator accepted.
PromptFill(kw) ==
    [ owner |-> IF kw.owner \in {"absent", "None", ""} THEN "dave" ELSE kw.owner,
      name  |-> IF kw.name \in {"None", ""} THEN "my-pkg" ELSE kw.name,
      rest  |-> TRUE ]

\* if interactive: effective_kwargs = _prompt_missing_config(...),
\* except SystemExit as exc: return exc.code
PromptMissingConfig ==
    /\ sc_pc = "prompt"
    /\ sc_calls' = Append(sc_calls, Call("_prompt_missing_config", ""))
    /\ \E answer \in {"proceed", "decline", "interrupt"} :
         CASE answer = "proceed" ->
                /\ sc_kwargs' = PromptFill(sc_kwargs)
                /\ sc_pc' = "init"
                /\ UNCHANGED <<sc_stderr, sc_rc>>
           [] answer = "decline" ->
                /\ sc_rc' = [kind |-> "returned", code |-> 0]
                /\ sc_pc' = "done"
                /\ UNCHANGED <<sc_kwargs, sc_stderr>>
           [] answer = "interrupt" ->
                /\ sc_rc' = [kind |-> "returned", code |-> 130]
                /\ sc_pc' = "done"
                /\ UNCHANGED <<sc_kwargs, sc_stderr>>
    /\ UNCHANGED <<sc_in, sc_owner, sc_lookup, sc_target>>
    /\ UNCHANGED <<exVars, suVars, inVars, auxVars>>

\* run_init: ProjectConfig(**config_kwargs) is built outside the try, so a
\* missing key (TypeError) or a name of None (AttributeError in to_snake)
\* escapes.  init_project returns True, or False after a soft warning
\* ("False"), or raises, which run_init catches and turns into False
\* ("Exception"); a field that is None makes it raise.
RunInitOutcomes(kw) ==
    IF kw.owner = "absent" THEN {"TypeError"}
    ELSE IF kw.name = "None" THEN {"AttributeError"}
    ELSE IF ~kw.rest THEN {"Exception"}
    ELSE {"True", "False", "Exception"}

\* The calls of one run_init: run_init itself with the github_owner it
\* receives, and init_project with its outcome when ProjectConfig was built.
RunInitCalls(kw, r) ==
    <<CallNamed("run_init", kw.owner, kw.name)>>
    \o (IF r \in {"True", "False", "Exception"}
        THEN <<Call("init_project", r)>> ELSE <<>>)

\* a False of run_init is only a warning: the run goes on to git
RunInitWarningsTolerated ==
    /\ sc_pc = "init"
    /\ \E r \in RunInitOutcomes(sc_kwargs) :
         /\ sc_calls' = sc_calls \o RunInitCalls(sc_kwargs, r)
         /\ CASE r \in {"True", "False"} ->
                   /\ sc_target' = "project"
                   /\ sc_pc' = "git"
                   /\ UNCHANGED <<sc_stderr, sc_rc>>
              [] r = "Exception" ->
                   /\ sc_target' = "partial"
                   /\ ScFail(MsgInitFailed)
              [] OTHER ->
                   /\ ScRaise(r)
                   /\ UNCHANGED sc_target
    /\ UNCHANGED <<sc_in, sc_owner, sc_kwargs, sc_lookup>>
    /\ UNCHANGED <<exVars, suVars, inVars, auxVars>>

\* if not run_init(...): return _err('Project initialization failed').
\* The target holds the rewritten project when init_project ran to its end,
\* and a partly rewritten tree when it raised.
RunInit ==
    /\ sc_pc = "init"
    /\ \E r \in RunInitOutcomes(sc_kwargs) :
         /\ sc_calls' = sc_calls \o RunInitCalls(sc_kwargs, r)
         /\ CASE r = "True" ->
                   /\ sc_target' = "project"
                   /\ sc_pc' = "git"
                   /\ UNCHANGED <<sc_stderr, sc_rc>>
              [] r = "False" ->
                   /\ sc_target' = "project"
                   /\ ScFail(MsgInitFailed)
              [] r = "Exception" ->
                   /\ sc_target' = "partial"
                   /\ ScFail(MsgInitFailed)
              [] OTHER ->
                   /\ ScRaise(r)
                   /\ UNCHANGED sc_target
    /\ UNCHANGED <<sc_in, sc_owner, sc_kwargs, sc_lookup>>
    /\ UNCHANGED <<exVars, suVars, inVars, auxVars>>

\* git_init's return code is not looked at: the run goes on to GitHub
GitInitUnchecked ==
    /\ sc_pc = "git"
    /\ \E installed \in BOOLEAN, rc \in {0, 1} :
         IF ~installed
         THEN /\ sc_calls' = Append(sc_calls, Call("check_git_installed", ""))
              /\ ScFail(MsgGitMissing)
              /\ UNCHANGED sc_target
         ELSE /\ sc_calls' = sc_calls \o << Call("check_git_installed", ""),
                                           Call("git_init", "") >>
              /\ sc_target' = IF rc = 0 THEN "repository" ELSE sc_target
              /\ sc_pc' = "github"
              /\ UNCHANGED <<sc_stderr, sc_rc>>
    /\ UNCHANGED <<sc_in, sc_owner, sc_kwargs, sc_lookup>>
    /\ UNCHANGED <<exVars, suVars, inVars, auxVars>>

\* check_git_installed(); rc = git_init(target_path)
GitInit ==
    /\ sc_pc = "git"
    /\ \E installed \in BOOLEAN, rc \in {0, 1} :
         IF ~installed
         THEN /\ sc_calls' = Append(sc_calls, Call("check_git_installed", ""))
              /\ ScFail(MsgGitMissing)
              /\ UNCHANGED sc_target
         ELSE /\ sc_calls' = sc_calls \o << Call("check_git_installed", ""),
                                           Call("git_init", "") >>
              /\ IF rc # 0
                 THEN /\ ScFail(MsgGitInitFailed)
                      /\ UNCHANGED sc_target
                 ELSE /\ sc_target' = "repository"
                      /\ sc_pc' = "github"
                      /\ UNCHANGED <<sc_stderr, sc_rc>>
    /\ UNCHANGED <<sc_in, sc_owner, sc_kwargs, sc_lookup>>
    /\ UNCHANGED <<exVars, suVars, inVars, auxVars>>

\* if github and github_owner is not None: rc = setup_github(target_path,
\* owner=github_owner, repo_name=target_path.name, ...);
\* then the outro and return 0
GithubSetup ==
    /\ sc_pc = "github"
    /\ IF sc_in.github /\ sc_owner # "None"
       THEN \E rc \in {0, 1} :
              /\ sc_calls' = Append(sc_calls,
                     CallNamed("setup_github", sc_owner, sc_in.dirname))
              /\ sc_rc' = [kind |-> "returned", code |-> rc]
       ELSE /\ sc_rc' = [kind |-> "returned", code |-> 0]
            /\ UNCHANGED sc_calls
    /\ sc_pc' = "done"
    /\ UNCHANGED <<sc_in, sc_owner, sc_kwargs, sc_lookup, sc_target, sc_stderr>>
    /\ UNCHANGED <<exVars, suVars, inVars, auxVars>>

ScNext ==
    \/ CheckTarget
    \/ EarlyGhChecks
    \/ InjectOwner
    \/ ResolveTag
    \/ DownloadAndExtract
    \/ LoadInit
    \/ PromptMissingConfig
    \/ RunInit
    \/ GitInit
    \/ GithubSetup

SpecScaffold == ScInit /\ [][ScNext]_vars

(***************************************************************************)
(* Claims about scaffold                                                   *)
(***************************************************************************)
\* The text of the last message printed by _err.
LastError == sc_stderr[Len(sc_stderr)]

\* C3: if the target path exists when scaffold is called, scaffold returns
\* non-zero with an 'already exists' error, and no external call (tag lookup,
\* download, gh or git check) is ever made and the target is left as it was.
C3_ExistingTargetAbortsFirst ==
    (sc_pc # "idle" /\ sc_in.exists) =>
        /\ sc_calls = <<>>
        /\ sc_target = "preexisting"
        /\ sc_pc \in {"start", "done"}
        /\ sc_pc = "done" =>
               /\ sc_rc.kind = "returned" /\ sc_rc.code # 0
               /\ Len(sc_stderr) = 1
               /\ " already exists" \in Range(LastError)

\* C3 witness: scaffold has returned for an existing target in a run that
\* asked for GitHub setup and pinned no version.
C3_Witness ==
    /\ sc_pc = "done"
    /\ sc_in.exists
    /\ sc_in.github
    /\ ~sc_in.pinned
    /\ sc_rc = [kind |-> "returned", code |-> 1]

\* C4: when no version is pinned and the latest-release lookup fails with
\* HTTP 403, scaffold returns non-zero with a message that mentions the rate
\* limit and suggests --template-version; the download is not attempted and
\* no target directory is created.
C4_RateLimitStopsBeforeDownload ==
    (sc_pc # "idle" /\ sc_lookup = [kind |-> "HTTPError", code |-> 403]) =>
        /\ ~sc_in.pinned
        /\ sc_pc = "done"
        /\ sc_rc.kind = "returned" /\ sc_rc.code # 0
        /\ Len(sc_stderr) = 1
        /\ "rate limit" \in Range(LastError)
        /\ "--template-version" \in Range(LastError)
        /\ "download_tarball" \notin Called
        /\ sc_target = "absent"

\* C4 witness: the lookup was answered with 403 after the gh checks passed.
C4_Witness ==
    /\ sc_pc = "done"
    /\ sc_lookup = [kind |-> "HTTPError", code |-> 403]
    /\ sc_in.github
    /\ "get_latest_release_tag" \in Called
    /\ sc_rc = [kind |-> "returned", code |-> 1]

(***************************************************************************)
(* The substitution engine run on its own                                  *)
(***************************************************************************)
\* Values a user can type; the validators decide which of them reach a
\* ProjectConfig.
NameInputs ==
    { <<"my", "-", "pkg">>,
      <<"my", "_", "pkg">>,
      <<"x">>,
      <<"tests">>,
      <<"uv", "-", "python", "-", "template">>,
      <<"my", "-", "python", "-", "package", "-", "template">>,
      TPL_KEBAB,
      <<"os">>,
      <<"-", "pkg">> }

OwnerInputs ==
    { <<"jane">>,
      <<"Acme">>,
      <<"michaelellis003">>,
      <<"michaelellis003", "x">>,
      TPL_KEBAB,
      <<"-", "jane">> }

AuthorInputs == { <<"Jane Doe">>, <<"J", "\"", "R">>, <<"Michael Ellis">> }

EmailInputs == { <<"jane", "@", "example.com">>, <<"jane">> }

DescriptionInputs == { <<"A test package">>, <<" ">> }

\* The configurations whose fields pass their validators.
ValidConfigs(licenses, pypi) ==
    { ProjectConfig(n, a, e, o, d, l, y) :
        n \in { v \in NameInputs : validate_name(v) = "ok" },
        a \in { v \in AuthorInputs : validate_author_name(v) = "ok" },
        e \in { v \in EmailInputs : validate_email(v) = "ok" },
        o \in { v \in OwnerInputs : validate_github_owner(v) = "ok" },
        d \in { v \in DescriptionInputs : validate_description(v) = "ok" },
        l \in licenses,
        y \in pypi }

\* Texts of the template's files, cut down to the lines the rules touch.
ReadmeTexts ==
    { <<"# ">> \o TPL_TITLE \o <<"\n", "https://github.com/">> \o TPL_URL
          \o <<"\n", "import ">> \o TPL_SNAKE,
      <<"https://github.com/">> \o TPL_URL_OLD \o <<" ", "https://">>
          \o TPL_PAGES,
      <<"pip install ">> \o TPL_KEBAB,
      <<"hello">> }

PyprojectText ==
    <<"name = ", "\"">> \o TPL_KEBAB \o <<"\"", "\n", "authors = [{">>
        \o TPL_AUTHOR \o <<", ">> \o TPL_EMAIL \o <<"}]", "\n",
           "description = ", "\"">> \o TEMPLATE_DESC \o <<"\"">>

CodeownersText == <<"* ">> \o TPL_MENTION

MetaText ==
    <<"home: https://github.com/">> \o TPL_URL \o <<"\n", "maintainers: ">>
        \o TPL_OWNER

ChangelogText == <<"https://github.com/">> \o TPL_URL

\* The function with domain D that maps path to text[path].
TreeOf(D, text) == [path \in D |-> text[path]]

SubstTrees ==
    { TreeOf({P_README} \cup opt,
             [path \in {P_README, P_PYPROJECT, P_CODEOWNERS, P_META,
                        P_CHANGELOG} |->
                 CASE path = P_README -> readme
                   [] path = P_PYPROJECT -> PyprojectText
                   [] path = P_CODEOWNERS -> CodeownersText
                   [] path = P_META -> MetaText
                   [] path = P_CHANGELOG -> ChangelogText]) :
        readme \in ReadmeTexts,
        opt \in SUBSET {P_PYPROJECT, P_CODEOWNERS, P_META, P_CHANGELOG} }

SuInit ==
    /\ ExIdle
    /\ ScIdle
    /\ InIdle
    /\ AuxIdle
    /\ cfg \in ValidConfigs({<<"none">>}, {FALSE})
    /\ tree \in SubstTrees
    /\ tree0 = tree
    /\ su_run = 0
    /\ su_first = <<>>

\* files = find_project_files(root); update_project_references(root, config,
\* files), run on the tree the previous run left
RunUpdateReferences ==
    /\ su_run < 2
    /\ tree' = update_project_references(tree, cfg, find_project_files(tree))
    /\ su_run' = su_run + 1
    /\ su_first' = IF su_run = 0 THEN tree' ELSE su_first
    /\ UNCHANGED <<cfg, tree0>>
    /\ UNCHANGED <<exVars, scVars, inVars, auxVars>>

SuNext == RunUpdateReferences

SpecSubst == SuInit /\ [][SuNext]_vars

(***************************************************************************)
(* Claims about the substitution engine                                    *)
(***************************************************************************)
\* C5: for every valid configuration and every tree, a second run of
\* update_project_references on the tree the first run produced leaves the
\* text of every file as it is.
C5_SecondRunChangesNothing ==
    su_run = 2 => tree = su_first

\* C6 speaks of text "that an earlier rule inserted".  To state it, a text is
\* cut into segments that remember where they came from: "orig" (text of the
\* file as it was), "url" (inserted by one of the two URL rules) or "ins"
\* (inserted by any other rule).
Seg(tag, s) == [tag |-> tag, s |-> s]

RECURSIVE SplitFrom(_, _, _, _, _, _)
\* seg.s[start..] with every occurrence of old cut out and replaced by a
\* segment tagged newtag that holds new
SplitFrom(seg, old, new, newtag, start, i) ==
    IF i > Len(seg.s)
    THEN << Seg(seg.tag, SubSeq(seg.s, start, Len(seg.s))) >>
    ELSE IF MatchAt(seg.s, old, i)
         THEN << Seg(seg.tag, SubSeq(seg.s, start, i - 1)), Seg(newtag, new) >>
                  \o SplitFrom(seg, old, new, newtag, i + Len(old),
                               i + Len(old))
         ELSE SplitFrom(seg, old, new, newtag, start, i + 1)

RECURSIVE ProtectedRule(_, _, _, _, _)
\* One rule applied to the segments whose tag is in tags; the others are
\* left as they are.
ProtectedRule(segs, tags, old, new, newtag) ==
    IF segs = <<>> THEN <<>>
    ELSE (IF Head(segs).tag \in tags
          THEN SplitFrom(Head(segs), old, new, newtag, 1, 1)
          ELSE << Head(segs) >>)
             \o ProtectedRule(Tail(segs), tags, old, new, newtag)

RECURSIVE Flatten(_)
Flatten(segs) ==
    IF segs = <<>> THEN <<>> ELSE Head(segs).s \o Flatten(Tail(segs))

\* What the claim promises for one selected file: the rules in their order,
\* where text inserted by a URL rule stays exactly as inserted and the
\* generic name rules (snake, kebab, title) rewrite original text only.
ProtectedResult(text, path, config) ==
    LET any == {"orig", "ins"}
        s0 == << Seg("orig", text) >>
        s1 == ProtectedRule(s0, {"orig"}, TPL_URL_OLD, config.github_repo,
                            "url")
        s2 == ProtectedRule(s1, {"orig"}, TPL_URL, config.github_repo, "url")
        s3 == IF path = P_PYPROJECT
              THEN ProtectedRule(s2, any, TPL_AUTHOR,
                       <<"name = ", "\"">> \o escape_toml_string(config.author)
                           \o <<"\"">>, "ins")
              ELSE s2
        s4 == IF path = P_PYPROJECT
              THEN ProtectedRule(s3, any, TPL_EMAIL,
                       <<"email = ", "\"">> \o escape_toml_string(config.email)
                           \o <<"\"">>, "ins")
              ELSE s3
        s5 == IF path = P_CODEOWNERS
              THEN ProtectedRule(s4, any, TPL_MENTION,
                       <<"@">> \o config.github_owner, "ins")
              ELSE s4
        s6 == ProtectedRule(s5, any, TPL_PAGES,
                  config.github_owner \o <<".github.io", "/">>
                      \o config.kebab_name, "ins")
        s7 == ProtectedRule(s6, {"orig"}, TPL_SNAKE, config.snake_name, "ins")
        s8 == ProtectedRule(s7, {"orig"}, TPL_KEBAB, config.kebab_name, "ins")
        s9 == ProtectedRule(s8, {"orig"}, TPL_TITLE, config.title_name, "ins")
        s10 == IF path = P_META
               THEN ProtectedRule(s9, any, TPL_OWNER, config.github_owner,
                                  "ins")
               ELSE s9
    IN  Flatten(s10)

\* C6: for every valid configuration, after update_project_references every
\* selected file reads as if each template URL had become exactly
\* {github_owner}/{kebab_name} and no snake, kebab or title rule had fired
\* inside, or altered, text that an earlier rule inserted.
C6_InsertedTextIsNeverRewritten ==
    su_run >= 1 =>
        \A path \in find_project_files(tree0) :
            su_first[path] = ProtectedResult(tree0[path], path, cfg)

(***************************************************************************)
(* init_project (scripts/init.py): helpers on lines                        *)
(***************************************************************************)
RECURSIVE SplitLines(_)
\* text.split('\n'): the text cut at every "\n" atom; '' gives ['']
SplitLines(text) ==
    IF "\n" \notin Range(text) THEN << text >>
    ELSE LET i == CHOOSE k \in 1..Len(text) :
                      /\ text[k] = "\n"
                      /\ \A j \in 1..(k - 1) : text[j] # "\n"
         IN  << SubSeq(text, 1, i - 1) >>
                 \o SplitLines(SubSeq(text, i + 1, Len(text)))

RECURSIVE JoinLines(_)
\* '\n'.join(lines)
JoinLines(lines) ==
    IF lines = <<>> THEN <<>>
    ELSE IF Len(lines) = 1 THEN lines[1]
    ELSE lines[1] \o <<"\n">> \o JoinLines(Tail(lines))

\* '\n'.join(ln for ln in text.split('\n') if pat not in ln)
DropLinesWith(text, pat) ==
    JoinLines(SelectSeq(SplitLines(text), LAMBDA ln : ~Contains(ln, pat)))

RECURSIVE LStrip(_)
LStrip(line) ==
    IF line # <<>> /\ Head(line) \in WhitespaceAtoms \cup {"\n"}
    THEN LStrip(Tail(line)) ELSE line

RECURSIVE RStrip(_, _)
\* text.rstrip(chars) for a set of atoms
RStrip(text, atoms) ==
    IF text # <<>> /\ text[Len(text)] \in atoms
    THEN RStrip(SubSeq(text, 1, Len(text) - 1), atoms) ELSE text

\* line.strip()
Strip(line) == RStrip(LStrip(line), WhitespaceAtoms \cup {"\n"})

\* text.startswith(pat)
StartsWith(text, pat) == MatchAt(text, pat, 1)

\* path.write_text(text): the file is created when it is missing
WriteText(t, path, text) ==
    [p \in DOMAIN t \cup {path} |-> IF p = path THEN text ELSE t[p]]

\* directory.exists() for a directory right under the root
DirExists(t, part) == \E p \in DOMAIN t : Len(p) >= 2 /\ p[1] = part

\* The tree without the files below the path prefix (shutil.rmtree) or
\* without the one file (unlink).
RemoveBelow(t, prefix) ==
    [p \in { q \in DOMAIN t :
               ~(Len(q) >= Len(prefix) /\ SubSeq(q, 1, Len(prefix)) = prefix) }
        |-> t[p]]

(***************************************************************************)
(* init_project: license setup                                             *)
(***************************************************************************)
\* datetime.now(tz=timezone.utc).year, as text
Year == <<"2026">>

SPDX_MAP ==
    (<<"agpl-3.0">> :> <<"AGPL-3.0-only">>)
    @@ (<<"apache-2.0">> :> <<"Apache-2.0">>)
    @@ (<<"bsd-2-clause">> :> <<"BSD-2-Clause">>)
    @@ (<<"bsd-3-clause">> :> <<"BSD-3-Clause">>)
    @@ (<<"bsl-1.0">> :> <<"BSL-1.0">>)
    @@ (<<"cc0-1.0">> :> <<"CC0-1.0">>)
    @@ (<<"epl-2.0">> :> <<"EPL-2.0">>)
    @@ (<<"gpl-2.0">> :> <<"GPL-2.0-only">>)
    @@ (<<"gpl-3.0">> :> <<"GPL-3.0-only">>)
    @@ (<<"lgpl-2.1">> :> <<"LGPL-2.1-only">>)
    @@ (<<"mit">> :> <<"MIT">>)
    @@ (<<"mpl-2.0">> :> <<"MPL-2.0">>)
    @@ (<<"unlicense">> :> <<"Unlicense">>)

APACHE_CLASSIFIER == <<"License :: OSI Approved :: Apache Software License">>

CLASSIFIER_MAP ==
    (<<"MIT">> :> <<"License :: OSI Approved :: MIT License">>)
    @@ (<<"Apache-2.0">> :> APACHE_CLASSIFIER)
    @@ (<<"BSD-2-Clause">> :> <<"License :: OSI Approved :: BSD License">>)
    @@ (<<"BSD-3-Clause">> :> <<"License :: OSI Approved :: BSD License">>)
    @@ (<<"GPL-2.0-only">> :>
           <<"License :: OSI Approved :: GNU General Public License v2 (GPLv2)">>)
    @@ (<<"GPL-3.0-only">> :>
           <<"License :: OSI Approved :: GNU General Public License v3 (GPLv3)">>)
    @@ (<<"LGPL-2.1-only">> :>
           <<"License :: OSI Approved :: GNU Lesser General Public License v2 or later (LGPLv2+)">>)
    @@ (<<"AGPL-3.0-only">> :>
           <<"License :: OSI Approved :: GNU Affero General Public License v3">>)
    @@ (<<"MPL-2.0">> :>
           <<"License :: OSI Approved :: Mozilla Public License 2.0 (MPL 2.0)">>)
    @@ (<<"Unlicense">> :>
           <<"License :: OSI Approved :: The Unlicense (Unlicense)">>)
    @@ (<<"BSL-1.0">> :>
           <<"License :: OSI Approved :: Boost Software License 1.0 (BSL-1.0)">>)
    @@ (<<"CC0-1.0">> :>
           <<"License :: CC0 1.0 Universal (CC0 1.0) Public Domain Dedication">>)
    @@ (<<"EPL-2.0">> :>
           <<"License :: OSI Approved :: Eclipse Public License 2.0 (EPL-2.0)">>)

\* str.lower() and str.upper() on the atoms license keys are written with
LowerOf ==
    ("None" :> "none") @@ ("NONE" :> "none") @@ ("MIT" :> "mit")
    @@ ("WTFPL" :> "wtfpl")

UpperOf ==
    ("none" :> "NONE") @@ ("None" :> "NONE") @@ ("mit" :> "MIT")
    @@ ("wtfpl" :> "WTFPL")

\* config.license_key == 'none', without the lower()
IsLicenseNoneExact(license_key) == license_key = <<"none">>

\* config.license_key.lower() == 'none'
IsLicenseNone(license_key) == MapAtoms(license_key, LowerOf) = <<"none">>

\* spdx_id_for_key(license_key)
spdx_id_for_key(license_key) ==
    IF license_key \in DOMAIN SPDX_MAP THEN SPDX_MAP[license_key]
    ELSE MapAtoms(license_key, UpperOf)

P_LICENSE == << <<"LICENSE">> >>
P_LICENSE_HEADER == << <<"LICENSE_HEADER">> >>
P_PRECOMMIT == << <<".pre-commit-config", ".yaml">> >>

PY_LICENSE(spdx_id) == <<"license = {text = ", "\"">> \o spdx_id \o <<"\"", "}">>

META_LICENSE(spdx_id) == <<"license: ">> \o spdx_id

\* The answers of the GitHub license API that fetch_license_body tells
\* apart: a body, a document without body, or any exception.
FetchResponses ==
    { [kind |-> "body",
       body |-> <<"License text", "\n", "Copyright (c) ", "[year]", " ",
                  "[fullname]">>],
      [kind |-> "body", body |-> <<>>],
      [kind |-> "exception"] }

\* fetch_license_body(key, author, year); <<>> stands for both '' and None,
\* which `if body:` does not tell apart
fetch_license_body(resp, author, year) ==
    IF resp.kind = "exception" THEN <<>>
    ELSE LET b1 == Replace(resp.body, <<"[year]">>, year)
         IN  Replace(b1, <<"[fullname]">>, author)

\* setup_license_metadata(root, spdx_id, author, year)
setup_license_metadata(t, spdx_id, author, year) ==
    LET t1 == ReplaceIfExists(t, P_PYPROJECT, PY_LICENSE(<<"Apache-2.0">>),
                  PY_LICENSE(spdx_id))
        t2 == IF P_PYPROJECT \notin DOMAIN t1 THEN t1
              ELSE IF spdx_id \in DOMAIN CLASSIFIER_MAP
              THEN replace_in_file(t1, P_PYPROJECT, APACHE_CLASSIFIER,
                       CLASSIFIER_MAP[spdx_id])
              ELSE [t1 EXCEPT ![P_PYPROJECT] =
                                  DropLinesWith(@, APACHE_CLASSIFIER)]
        t3 == ReplaceIfExists(t2, P_META, META_LICENSE(<<"Apache-2.0">>),
                  META_LICENSE(spdx_id))
    IN  WriteText(t3, P_LICENSE_HEADER,
            <<"Copyright ">> \o year \o <<" ">> \o author
                \o <<"\n", "SPDX-License-Identifier: ">> \o spdx_id
                \o <<"\n">>)

header_line1(author, year) == <<"# ", "Copyright ">> \o year \o <<" ">> \o author

header_line2(spdx_id) == <<"# ", "SPDX-License-Identifier: ">> \o spdx_id

\* The body of the loop over py_file in apply_license_headers
WithHeader(content, author, spdx_id, year) ==
    LET lines == SplitLines(content)
        hdr == << header_line1(author, year), header_line2(spdx_id) >>
    IN  IF lines # <<>> /\ StartsWith(lines[1], <<"#!">>)
        THEN JoinLines(<< lines[1] >> \o hdr \o Tail(lines))
        ELSE JoinLines(hdr \o lines)

\* for py_file in directory.rglob('*.py'), for one directory under the root
HeadersInDirectory(t, part, author, spdx_id, year) ==
    [p \in DOMAIN t |->
        IF Len(p) >= 2 /\ p[1] = part /\ PathName(p)[Len(PathName(p))] = ".py"
        THEN WithHeader(t[p], author, spdx_id, year)
        ELSE t[p]]

\* apply_license_headers(root, snake_name, author, spdx_id, year); a
\* directory that does not exist has no file below it
apply_license_headers(t, snake_name, author, spdx_id, year) ==
    LET t1 == HeadersInDirectory(t, snake_name, author, spdx_id, year)
    IN  HeadersInDirectory(t1, <<"tests">>, author, spdx_id, year)

HOOK_MARKER == <<"  # Keep rev in sync with ruff version">>

HOOK_BLOCK ==
    <<"  - repo: https://github.com/Lucas-C/pre-commit-hooks", "\n",
      "    rev: v1.5.5", "\n",
      "    hooks:", "\n",
      "      - id: insert-license", "\n",
      "        files: \\.py$", "\n",
      "        args:", "\n",
      "          - --license-filepath=LICENSE_HEADER", "\n",
      "          - --comment-style=#", "\n",
      "          - --detect-license-in-X-top-lines=5", "\n">>

\* add_insert_license_hook(root)
add_insert_license_hook(t) ==
    ReplaceIfExists(t, P_PRECOMMIT, HOOK_MARKER, HOOK_BLOCK \o HOOK_MARKER)

\* _setup_license_if_needed(root, config, year): the tree it leaves for the
\* answer resp of the license API
SetupLicenseTree(t, config, year, resp) ==
    LET spdx == spdx_id_for_key(config.license_key)
        body == fetch_license_body(resp, config.author, year)
        t1 == IF body # <<>> THEN WriteText(t, P_LICENSE, body \o <<"\n">>)
              ELSE t
        t2 == setup_license_metadata(t1, spdx, config.author, year)
        t3 == add_insert_license_hook(t2)
    IN  apply_license_headers(t3, config.snake_name, config.author, spdx, year)

(***************************************************************************)
(* init_project: the steps before the license setup                        *)
(***************************************************************************)
P_CLAUDE == << <<"CLAUDE", ".md">> >>
P_RELEASE == << <<".github">>, <<"workflows">>, <<"release", ".yml">> >>
P_CI == << <<".github">>, <<"workflows">>, <<"ci", ".yml">> >>
P_E2E == << <<".github">>, <<"workflows">>, <<"e2e", ".yml">> >>
P_CLI_RELEASE == << <<".github">>, <<"workflows">>, <<"cli-release", ".yml">> >>
P_DOCKERIGNORE == << <<".dockerignore">> >>
P_INIT_SH == << <<"scripts">>, <<"init", ".sh">> >>
P_INIT_PY == << <<"scripts">>, <<"init", ".py">> >>
P_DOCS_INDEX == << <<"docs">>, <<"index", ".md">> >>
P_PUBLISHING == << <<"docs">>, <<"publishing", ".md">> >>
P_TESTING_MD == << <<".claude">>, <<"rules">>, <<"testing", ".md">> >>
P_CODE_STYLE == << <<".claude">>, <<"rules">>, <<"code-style", ".md">> >>

\* old_dir.rename(root / config.snake_name) raises OSError when the
\* destination is a file or a directory that holds files
RenameRaises(t, config) ==
    /\ DirExists(t, TPL_SNAKE)
    /\ config.snake_name # TPL_SNAKE
    /\ \E p \in DOMAIN t : p[1] = config.snake_name

\* _rename_package_dir(root, config), when the rename succeeds
rename_package_dir(t, config) ==
    IF ~DirExists(t, TPL_SNAKE) THEN t
    ELSE LET Moved(p) == IF p[1] = TPL_SNAKE
                         THEN << config.snake_name >> \o Tail(p) ELSE p
             Origin(q) == CHOOSE p \in DOMAIN t : Moved(p) = q
         IN  [q \in { Moved(p) : p \in DOMAIN t } |-> t[Origin(q)]]

\* _update_all_references(root, config)
update_all_references(t, config) ==
    update_description(
        update_project_references(t, config, find_project_files(t)), config)

README_DESC ==
    <<"A production-ready template for starting new Python packages. Clone it, rename a few things, and start building - dependency management, linting, type checking, testing, and CI/CD are already wired up.">>

\* _update_readme_badges(root, config)
update_readme_badges(t, config) ==
    IF P_README \notin DOMAIN t THEN t
    ELSE LET t1 == [t EXCEPT ![P_README] = DropLinesWith(@, <<"codecov.io">>)]
         IN  replace_in_file(t1, P_README, README_DESC, config.description)

KEYWORDS_OLD ==
    <<"keywords = [", "\"", "template", "\"", ", ", "\"", "python", "\"",
      ", ", "\"", "uv", "\"", ", ", "\"", "ruff", "\"", ", ", "\"", "pyright",
      "\"", "]">>

\* update_keywords(root)
update_keywords(t) ==
    ReplaceIfExists(t, P_PYPROJECT, KEYWORDS_OLD, <<"keywords = []">>)

\* re.sub(r'^version = ".*"', 'version = "0.1.0"', line) on one line: the
\* match runs from the start of the line to its last quote
ResetVersionLine(line) ==
    LET quotes == { i \in 3..Len(line) : line[i] = "\"" }
    IN  IF StartsWith(line, <<"version = ", "\"">>) /\ quotes # {}
        THEN LET last == CHOOSE i \in quotes : \A j \in quotes : j <= i
             IN  <<"version = ", "\"", "0.1.0", "\"">>
                     \o SubSeq(line, last + 1, Len(line))
        ELSE line

CHANGELOG_RESET == <<"# CHANGELOG", "\n", "\n", "<!-- version list -->", "\n">>

\* reset_version_and_changelog(root)
reset_version_and_changelog(t) ==
    LET t1 == IF P_PYPROJECT \in DOMAIN t
              THEN [t EXCEPT ![P_PYPROJECT] =
                       LET lines == SplitLines(@)
                       IN  JoinLines([i \in 1..Len(lines) |->
                                         ResetVersionLine(lines[i])])]
              ELSE t
    IN  WriteText(t1, P_CHANGELOG, CHANGELOG_RESET)

\* remove_todo_comments(root)
remove_todo_comments(t) ==
    IF P_PYPROJECT \in DOMAIN t
    THEN [t EXCEPT ![P_PYPROJECT] =
             DropLinesWith(@, <<"# TODO: Update the --upgrade-package">>)]
    ELSE t

\* _update_readme_structure(root)
update_readme_structure(t) ==
    ReplaceIfExists(t, P_README, <<"# Package source", " (rename this)">>,
        <<"# Package source">>)

(***************************************************************************)
(* init_project: stripping the template-only text                          *)
(***************************************************************************)
\* Atoms of Markdown text are written with ' where the files have a backquote.
MARKER_START == <<"<!-- TEMPLATE-ONLY-START -->">>
MARKER_END == <<"<!-- TEMPLATE-ONLY-END -->">>

RECURSIVE MarkerLoop(_, _, _)
\* The loop of _replace_marker_section over the lines still to read
MarkerLoop(lines, replacement, skip) ==
    IF lines = <<>> THEN <<>>
    ELSE IF Contains(Head(lines), MARKER_START)
    THEN << RStrip(replacement, {"\n"}) >>
             \o MarkerLoop(Tail(lines), replacement, TRUE)
    ELSE IF Contains(Head(lines), MARKER_END)
    THEN MarkerLoop(Tail(lines), replacement, FALSE)
    ELSE IF ~skip
    THEN << Head(lines) >> \o MarkerLoop(Tail(lines), replacement, skip)
    ELSE MarkerLoop(Tail(lines), replacement, skip)

\* _replace_marker_section(content, replacement)
replace_marker_section(content, replacement) ==
    JoinLines(MarkerLoop(SplitLines(content), replacement, FALSE))

GettingStarted(config) ==
    <<"## ", "Getting Started", "\n", "\n", "### ", "Prerequisites", "\n",
      "- Python 3.10+", "\n",
      "- [uv](https://docs.astral.sh/uv/getting-started/installation/)", "\n",
      "\n", "### ", "Installation", "\n", "\n", "'''bash", "\n",
      "git clone https://github.com/">> \o config.github_repo
    \o <<".git", "\n", "cd ">> \o config.kebab_name
    \o <<"\n", "uv sync", "\n", "'''", "\n", "\n", "### ", "Running Tests", "\n",
         "\n", "'''bash", "\n", "uv run pytest -v --cov", "\n", "'''", "\n",
         "\n", "### ", "Pre-commit Hooks", "\n", "\n", "'''bash", "\n",
         "uv run pre-commit install", "\n", "'''", "\n">>

ClaudeSummary(config) ==
    <<"**">> \o config.kebab_name \o <<"**", " - ">> \o config.description
    \o <<". Uses uv, Ruff, Pyright, and pre-commit", "\n", "hooks. Licensed ">>
    \o spdx_id_for_key(config.license_key) \o <<".", "\n">>

\* strip_template_sections(root, config)
strip_template_sections(t, config) ==
    LET t1 == IF P_README \in DOMAIN t
              THEN [t EXCEPT ![P_README] =
                       replace_marker_section(@, GettingStarted(config))]
              ELSE t
    IN  IF P_CLAUDE \in DOMAIN t1
        THEN [t1 EXCEPT ![P_CLAUDE] =
                 replace_marker_section(@, ClaudeSummary(config))]
        ELSE t1

\* _strip_init_refs_from_docs(root)
strip_init_refs_from_docs(t) ==
    LET t1 == ReplaceIfExists(t, P_PUBLISHING,
                  <<"run 'uv run --script ./scripts/init.py --pypi',", "\n",
                    "   or ", "manually uncomment">>,
                  <<"manually uncomment">>)
    IN  ReplaceIfExists(t1, P_RELEASE,
            <<"Run init.py with --pypi, or uncomment">>, <<"Uncomment">>)

APACHE_CONFIGURABLE == <<"Apache-2.0", " license", " (configurable via init.py)">>

\* '('init.sh' in ln or 'init.py' in ln) and ('Interactive' in ln or
\* 'initialization' in ln)'
IsInitDiagramLine(ln) ==
    /\ Contains(ln, <<"init.sh">>) \/ Contains(ln, <<"init.py">>)
    /\ Contains(ln, <<"Interactive">>) \/ Contains(ln, <<"initialization">>)

\* _strip_init_refs_from_md(root, spdx)
strip_init_refs_from_md(t, spdx) ==
    LET t1 == ReplaceIfExists(t, P_README,
                  <<"Run 'uv run --script ./scripts/init.py --pypi' to enable publishing (or uncomment">>,
                  <<"Uncomment">>)
        t2 == ReplaceIfExists(t1, P_README,
                  <<"the 'PYPI-START'/'PYPI-END' block in 'release.yml'",
                    " manually).">>,
                  <<"the 'PYPI-START'/'PYPI-END' block in 'release.yml'", ".">>)
        t3 == ReplaceIfExists(t2, P_README, APACHE_CONFIGURABLE,
                  spdx \o <<" license">>)
        t4 == ReplaceIfExists(t3, P_CLAUDE, APACHE_CONFIGURABLE,
                  spdx \o <<" license">>)
        Clean(text) ==
            JoinLines(SelectSeq(SplitLines(text),
                                LAMBDA ln : ~IsInitDiagramLine(ln)))
    IN  [p \in DOMAIN t4 |->
            IF p \in {P_README, P_CLAUDE} THEN Clean(t4[p]) ELSE t4[p]]

\* _rewrite_docs_index(root, config)
rewrite_docs_index(t, config) ==
    IF P_DOCS_INDEX \notin DOMAIN t THEN t
    ELSE [t EXCEPT ![P_DOCS_INDEX] =
             <<"# ">> \o config.title_name \o <<"\n", "\n">>
             \o config.description
             \o <<"\n", "\n", "## ", "Features", "\n", "\n",
                  "- **[uv](https://docs.astral.sh/uv/)** for fast Python package management",
                  "\n",
                  "- **[Ruff](https://docs.astral.sh/ruff/)** for linting and formatting",
                  "\n",
                  "- **[Pyright](https://github.com/microsoft/pyright)** for static type checking",
                  "\n",
                  "- **[Pytest](https://docs.pytest.org/)** with coverage for testing",
                  "\n",
                  "- **GitHub Actions** CI/CD with auto-release on merge to main",
                  "\n", "\n", "## ", "Quick Start", "\n", "\n", "'''bash", "\n",
                  "git clone https://github.com/">>
             \o config.github_repo \o <<".git", "\n", "cd ">>
             \o config.kebab_name
             \o <<"\n", "uv sync", "\n", "uv run pytest -v --cov", "\n",
                  "'''", "\n", "\n", "## ", "Next Steps", "\n", "\n",
                  "- [API Reference](api.md) - auto-generated documentation for all public functions",
                  "\n">>]

RECURSIVE TestingLoop(_, _)
\* The loop of _strip_testing_md_template_section over the lines to read
TestingLoop(lines, skip) ==
    IF lines = <<>> THEN <<>>
    ELSE LET line == Head(lines)
         IN  IF Strip(line) = <<"## ", "Template Tests">>
             THEN TestingLoop(Tail(lines), TRUE)
             ELSE LET skip2 == skip /\ ~StartsWith(line, <<"## ">>)
                  IN  IF skip2 THEN TestingLoop(Tail(lines), skip2)
                      ELSE << line >> \o TestingLoop(Tail(lines), skip2)

\* _strip_testing_md_template_section(root)
strip_testing_md_template_section(t) ==
    IF P_TESTING_MD \notin DOMAIN t THEN t
    ELSE [t EXCEPT ![P_TESTING_MD] =
             JoinLines(TestingLoop(SplitLines(@), FALSE))]

LICENSE_SECTION_OLD ==
    <<"## ", "License Headers", "\n", "\n",
      "- After running 'init.py' with a license selection, all '.py' files",
      "\n",
      "  will have SPDX license headers and an 'insert-license' pre-commit",
      "\n", "  hook enforces them on new files.", "\n",
      "- Place after shebang (if present), before module docstring.", "\n",
      "- Format:", "\n", "  '''python", "\n", "  # Copyright YYYY Author Name",
      "\n", "  # SPDX-License-Identifier: LICENSE-ID", "\n", "  '''", "\n",
      "- The template repo itself does not ship with headers - they are",
      "\n", "  generated by 'init.py' based on the selected license.">>

LicenseSectionTail ==
    <<"- Place after shebang (if present), before module docstring.", "\n",
      "- Format:", "\n", "  '''python", "\n", "  # Copyright YYYY Author Name",
      "\n", "  # SPDX-License-Identifier: LICENSE-ID", "\n", "  '''">>

\* _update_code_style_rules(root, config)
update_code_style_rules(t, config) ==
    LET new_section ==
            IF ~IsLicenseNone(config.license_key)
            THEN <<"## ", "License Headers", "\n", "\n",
                   "- All '.py' files have SPDX license headers. The 'insert-license'",
                   "\n", "  pre-commit hook enforces them on new files.",
                   "\n">> \o LicenseSectionTail
            ELSE <<"## ", "License Headers", "\n", "\n",
                   "- Add SPDX license headers to all '.py' files when applicable.",
                   "\n">> \o LicenseSectionTail
    IN  ReplaceIfExists(t, P_CODE_STYLE, LICENSE_SECTION_OLD, new_section)

\* _strip_init_references(root, config)
strip_init_references(t, config) ==
    LET spdx == spdx_id_for_key(config.license_key)
        t1 == strip_init_refs_from_docs(t)
        t2 == strip_init_refs_from_md(t1, spdx)
        t3 == rewrite_docs_index(t2, config)
        t4 == strip_testing_md_template_section(t3)
    IN  update_code_style_rules(t4, config)

(***************************************************************************)
(* init_project: PyPI, validation and the removal of the template's own    *)
(* infrastructure                                                          *)
(***************************************************************************)
\* The loop body of enable_pypi for a line inside the PYPI block: <<>> when
\* the line is dropped, else the one line kept
UncommentLine(line) ==
    LET rest == LStrip(line)
        indent == SubSeq(line, 1, Len(line) - Len(rest))
    IN  IF rest = <<"#">> THEN <<>>
        ELSE IF StartsWith(rest, <<"# ">>) THEN << indent \o Tail(rest) >>
        ELSE << line >>

RECURSIVE PypiLoop(_, _)
PypiLoop(lines, in_block) ==
    IF lines = <<>> THEN <<>>
    ELSE IF Contains(Head(lines), <<"# ", "PYPI-START">>)
    THEN PypiLoop(Tail(lines), TRUE)
    ELSE IF Contains(Head(lines), <<"# ", "PYPI-END">>)
    THEN PypiLoop(Tail(lines), FALSE)
    ELSE (IF in_block THEN UncommentLine(Head(lines)) ELSE << Head(lines) >>)
             \o PypiLoop(Tail(lines), in_block)

\* enable_pypi(root)
enable_pypi(t) ==
    IF P_RELEASE \notin DOMAIN t THEN t
    ELSE [t EXCEPT ![P_RELEASE] = JoinLines(PypiLoop(SplitLines(@), FALSE))]

STALE_PATTERNS ==
    { TPL_SNAKE, TPL_KEBAB, <<"uv", "-", "python", "-", "template">>,
      <<"michaelellis003">>, <<"Michael Ellis">> }

TEXT_EXTS == { ".py", ".toml", ".yml", ".yaml", ".md", ".cfg", ".json", ".sh" }

\* find_stale_references(root), as a set
find_stale_references(t) ==
    { path \in DOMAIN t :
        /\ \A i \in 1..Len(path) : path[i] \notin EXCLUDE_DIRS
        /\ PathName(path) \notin
               { <<"uv", ".lock">>, <<"init", ".sh">>, <<"init", ".py">> }
        /\ ~IsTemplateTestPath(path)
        /\ PathSuffix(path) \in TEXT_EXTS
        /\ \E pat \in STALE_PATTERNS : Contains(t[path], pat) }

RECURSIVE CliJobLoop(_, _)
\* The first loop of _strip_cli_tests_from_ci
CliJobLoop(lines, skip) ==
    IF lines = <<>> THEN <<>>
    ELSE LET line == Head(lines)
         IN  IF StartsWith(Strip(line), <<"# ", "CLI package">>)
             THEN CliJobLoop(Tail(lines), TRUE)
             ELSE IF skip /\ Strip(line) = <<"cli-tests", ":">>
             THEN CliJobLoop(Tail(lines), skip)
             ELSE LET skip2 == skip /\ ~(/\ Len(line) >= 2
                                         /\ line[1] = "  "
                                         /\ line[2] \notin WhitespaceAtoms)
                  IN  IF skip2 THEN CliJobLoop(Tail(lines), skip2)
                      ELSE << line >> \o CliJobLoop(Tail(lines), skip2)

\* The second loop of _strip_cli_tests_from_ci, for one line
CleanNeedsLine(line) ==
    IF Contains(line, <<"needs:">>) /\ Contains(line, <<"cli-tests">>)
    THEN Replace(Replace(Replace(line, <<", ", "cli-tests">>, <<>>),
                         <<"cli-tests", ", ">>, <<>>),
                 <<"cli-tests">>, <<>>)
    ELSE line

\* _strip_cli_tests_from_ci(root)
strip_cli_tests_from_ci(t) ==
    IF P_CI \notin DOMAIN t THEN t
    ELSE [t EXCEPT ![P_CI] =
             LET result == CliJobLoop(SplitLines(@), FALSE)
             IN  JoinLines([i \in 1..Len(result) |->
                               CleanNeedsLine(result[i])])]

\* cleanup_template_infrastructure(root)
cleanup_template_infrastructure(t) ==
    LET files_to_remove ==
            { P_INIT_SH, P_INIT_PY, P_DOCKERIGNORE, P_E2E, P_CLI_RELEASE }
        t1 == [p \in DOMAIN t \ files_to_remove |-> t[p]]
        t2 == RemoveBelow(t1, << <<"tests">>, <<"template">> >>)
        t3 == RemoveBelow(t2, << <<"tests">>, <<"e2e">> >>)
        t4 == RemoveBelow(t3, << <<"cli">> >>)
    IN  strip_cli_tests_from_ci(t4)

DOC_PATTERNS ==
    { "template/", "conftest.py", "test_template_structure",
      "test_init_license", "test_init_flags", "e2e/", "Dockerfile",
      "verify-project.sh", "run-e2e.sh", "e2e.yml", ".dockerignore", "cli/",
      "cli-release.yml" }

DOC_HINTS ==
    { "# Template", "# Fixtures", "# Docker", "# Parameterized",
      "# Container-side", "# Host-side", "# E2E", "# CLI",
      "Verifies template", "Integration tests", "Docker build",
      "Template-specific", "pypkgkit" }

\* _is_template_doc_line(line)
is_template_doc_line(line) ==
    /\ Strip(line) # <<>>
    /\ \E pat \in DOC_PATTERNS :
           /\ pat \in Range(line)
           /\ \E hint \in DOC_HINTS : hint \in Range(line)

RECURSIVE E2ELoop(_, _)
\* The second loop of _cleanup_documentation_refs
E2ELoop(lines, skip) ==
    IF lines = <<>> THEN <<>>
    ELSE LET line == Head(lines)
         IN  IF /\ Contains(line, <<"### ", "On Push to Main and Pull Request">>)
                /\ Contains(line, <<"e2e">>)
             THEN E2ELoop(Tail(lines), TRUE)
             ELSE LET skip2 == skip /\ ~StartsWith(line, <<"### ">>)
                  IN  IF skip2 THEN E2ELoop(Tail(lines), skip2)
                      ELSE << line >> \o E2ELoop(Tail(lines), skip2)

\* _cleanup_documentation_refs(root)
cleanup_documentation_refs(t) ==
    LET Clean(text) ==
            JoinLines(SelectSeq(SplitLines(text),
                                LAMBDA ln : ~is_template_doc_line(ln)))
        t1 == [p \in DOMAIN t |->
                  IF p \in {P_CLAUDE, P_README} THEN Clean(t[p]) ELSE t[p]]
    IN  IF P_README \in DOMAIN t1
        THEN [t1 EXCEPT ![P_README] = JoinLines(E2ELoop(SplitLines(@), FALSE))]
        ELSE t1

(***************************************************************************)
(* init_project: the trees and configurations it is run on                 *)
(***************************************************************************)
InitReadmeText ==
    <<"# ">> \o TPL_TITLE
    \o <<"\n", "[![codecov](https://", "codecov.io", "/gh/">> \o TPL_URL
    \o <<")]", "\n">> \o README_DESC
    \o <<"\n">> \o MARKER_START
    \o <<"\n", "Use this template", "\n">> \o MARKER_END
    \o <<"\n", "# Package source", " (rename this)", "\n">>
    \o APACHE_CONFIGURABLE
    \o <<"\n", "scripts/", "init.py", "  # ", "Interactive", " project setup",
         "\n", "tests/", "template/", "  ", "# Template", " tests",
         "\n", "### ", "On Push to Main and Pull Request", " (", "e2e", ")",
         "\n", "runs the e2e suite",
         "\n", "### ", "On Release", "\n", "publishes">>

InitPyprojectText ==
    PyprojectText
    \o <<"\n", "version = ", "\"", "1.5.0", "\"", "\n">>
    \o PY_LICENSE(<<"Apache-2.0">>)
    \o <<"\n">> \o KEYWORDS_OLD
    \o <<"\n", "    ", "\"">> \o APACHE_CLASSIFIER
    \o <<"\"", ",", "\n", "    ", "# TODO: Update the --upgrade-package",
         " when renaming">>

InitMetaText ==
    MetaText \o <<"\n">> \o META_LICENSE(<<"Apache-2.0">>)
    \o <<"\n", "summary: ">> \o TEMPLATE_DESC

InitPrecommitText ==
    <<"repos:", "\n">> \o HOOK_MARKER \o <<"\n", "  - repo: ruff-pre-commit">>

InitReleaseText ==
    <<"# ", "Run init.py with --pypi, or uncomment", "\n",
      "      ", "# ", "PYPI-START", "\n",
      "      ", "# ", "- name: Publish", "\n",
      "      ", "#", "\n",
      "      ", "# ", "PYPI-END", "\n",
      "      ", "- name: Done">>

InitCiText ==
    <<"jobs:", "\n",
      "  ", "lint:", "\n",
      "  ", "# ", "CLI package", "\n",
      "  ", "cli-tests", ":", "\n",
      "    ", "runs-on: ubuntu", "\n",
      "  ", "ci-pass:", "\n",
      "    ", "needs:", " [", "lint", ", ", "cli-tests", "]">>

InitClaudeText ==
    MARKER_START \o <<"\n", "A template", "\n">> \o MARKER_END
    \o <<"\n">> \o APACHE_CONFIGURABLE
    \o <<"\n", "cli/", "  ", "# CLI", " package">>

\* The files every modelled tree holds
BaseFiles ==
    (P_LICENSE :> <<"Apache License", "\n", "Version 2.0">>)
    @@ (P_CHANGELOG :> ChangelogText)
    @@ (P_INIT_PY :> <<"import ", "re">>)

PackageFiles ==
    (<< TPL_SNAKE, <<"__init__", ".py">> >> :>
         (<<"\"\"\"", "This is the ">> \o TPL_SNAKE
             \o <<" package.", "\"\"\"", "\n">>))
    @@ (<< TPL_SNAKE, <<"__main__", ".py">> >> :>
         (<<"#!", "/usr/bin/env python", "\n", "from ">> \o TPL_SNAKE
             \o <<" import main">>))

TestFiles ==
    (<< <<"tests">>, <<"test_main", ".py">> >> :>
         (<<"from ">> \o TPL_SNAKE \o <<" import add", "\n">>))
    @@ (<< <<"tests">>, <<"template">>, <<"test_init", ".py">> >> :>
         <<"import ", "pytest">>)

ProjectFiles ==
    (P_README :> InitReadmeText)
    @@ (P_PYPROJECT :> InitPyprojectText)
    @@ (P_META :> InitMetaText)
    @@ (P_PRECOMMIT :> InitPrecommitText)

ExtraFiles ==
    (P_RELEASE :> InitReleaseText)
    @@ (P_CI :> InitCiText)
    @@ (P_CLAUDE :> InitClaudeText)
    @@ (P_DOCKERIGNORE :> <<".venv">>)
    @@ (P_DOCS_INDEX :> (<<"# ">> \o TPL_TITLE))
    @@ (P_PUBLISHING :>
          <<"To publish, ",
            "run 'uv run --script ./scripts/init.py --pypi',", "\n",
            "   or ", "manually uncomment", " the block">>)
    @@ (P_TESTING_MD :>
          <<"## ", "Conventions", "\n", "## ", "Template Tests", "\n",
            "are automatically removed when", " init runs", "\n",
            "## ", "Coverage">>)
    @@ (P_CODE_STYLE :> (<<"# Code style", "\n">> \o LICENSE_SECTION_OLD))

Pick(flag, files) == IF flag THEN files ELSE <<>>

InitTrees ==
    { BaseFiles @@ Pick(pkg, PackageFiles) @@ Pick(tst, TestFiles)
          @@ Pick(prj, ProjectFiles) @@ Pick(ext, ExtraFiles) :
        pkg \in BOOLEAN, tst \in BOOLEAN, prj \in BOOLEAN, ext \in BOOLEAN }

LicenseInputs == { <<"none">>, <<"None">>, <<"mit">>, <<"wtfpl">> }

InitNames ==
    { <<"my", "-", "pkg">>, <<"tests">>,
      <<"my", "-", "python", "-", "package", "-", "template">> }

InitConfigs ==
    { c \in ValidConfigs(LicenseInputs, BOOLEAN) :
        /\ c.name \in InitNames
        /\ c.github_owner = <<"jane">>
        /\ c.author = <<"Jane Doe">> }

(***************************************************************************)
(* init_project: one action per step of the pipeline                       *)
(***************************************************************************)
InInit ==
    /\ ExIdle
    /\ ScIdle
    /\ AuxIdle
    /\ cfg \in InitConfigs
    /\ tree \in InitTrees
    /\ tree0 = tree
    /\ su_run = 0
    /\ su_first = <<>>
    /\ in_pc = "_rename_package_dir"
    /\ in_ok = TRUE
    /\ in_trace = <<>>
    /\ in_fetch = "none"
    /\ in_lock = "none"
    /\ in_import = "none"
    /\ in_stale = "none"
    /\ in_result = [kind |-> "running"]
    /\ tree_lic = <<>>

\* What every step leaves alone
InFrame == UNCHANGED <<exVars, scVars, cfg, tree0, su_run, su_first, auxVars>>

\* A step without a status: the call of fn, which leaves the tree t2, and
\* then on to the step next
InCall(fn, t2, next) ==
    /\ in_pc = fn
    /\ in_trace' = Append(in_trace, fn)
    /\ tree' = t2
    /\ in_pc' = next
    /\ UNCHANGED <<in_ok, in_fetch, in_lock, in_import, in_stale, in_result,
                   tree_lic>>
    /\ InFrame

RenamePackageDir ==
    /\ in_pc = "_rename_package_dir"
    /\ in_trace' = Append(in_trace, "_rename_package_dir")
    /\ IF RenameRaises(tree, cfg)
       THEN /\ in_result' = [kind |-> "raised", exc |-> "OSError"]
            /\ in_pc' = "done"
            /\ tree' = tree
       ELSE /\ in_result' = in_result
            /\ in_pc' = "_update_all_references"
            /\ tree' = rename_package_dir(tree, cfg)
    /\ UNCHANGED <<in_ok, in_fetch, in_lock, in_import, in_stale, tree_lic>>
    /\ InFrame

UpdateAllReferences ==
    InCall("_update_all_references", update_all_references(tree, cfg),
           "_update_readme_badges")

UpdateReadmeBadges ==
    InCall("_update_readme_badges", update_readme_badges(tree, cfg),
           "update_keywords")

UpdateKeywords ==
    InCall("update_keywords", update_keywords(tree),
           "reset_version_and_changelog")

ResetVersionAndChangelog ==
    InCall("reset_version_and_changelog", reset_version_and_changelog(tree),
           "remove_todo_comments")

RemoveTodoComments ==
    InCall("remove_todo_comments", remove_todo_comments(tree),
           "_update_readme_structure")

UpdateReadmeStructure ==
    InCall("_update_readme_structure", update_readme_structure(tree),
           "_setup_license_if_needed")

\* ok = _setup_license_if_needed(root, config, year) and ok: the function
\* returns True on each of its paths
SetupLicenseIfNeeded ==
    /\ in_pc = "_setup_license_if_needed"
    /\ in_trace' = Append(in_trace, "_setup_license_if_needed")
    /\ tree_lic' = tree
    /\ IF IsLicenseNone(cfg.license_key)
       THEN /\ tree' = tree
            /\ in_fetch' = in_fetch
       ELSE \E resp \in FetchResponses :
                /\ in_fetch' = IF resp.kind = "exception" THEN "exception"
                               ELSE IF resp.body = <<>> THEN "empty"
                               ELSE "body"
                /\ tree' = SetupLicenseTree(tree, cfg, Year, resp)
    /\ in_ok' = (TRUE /\ in_ok)
    /\ in_pc' = "strip_template_sections"
    /\ UNCHANGED <<in_lock, in_import, in_stale, in_result>>
    /\ InFrame

StripTemplateSections ==
    InCall("strip_template_sections", strip_template_sections(tree, cfg),
           "_strip_init_references")

StripInitReferences ==
    InCall("_strip_init_references", strip_init_references(tree, cfg),
           IF cfg.enable_pypi THEN "enable_pypi" ELSE "_regenerate_lockfile")

\* if config.enable_pypi: enable_pypi(root)
EnablePypi ==
    InCall("enable_pypi", enable_pypi(tree), "_regenerate_lockfile")

\* What subprocess.run(..., check=True) can do in the two functions that
\* call it: return, or raise one of the two exceptions they catch.
RunOutcomes == { "ok", "CalledProcessError", "FileNotFoundError" }

\* ok = _regenerate_lockfile(root) and ok
RegenerateLockfile ==
    /\ in_pc = "_regenerate_lockfile"
    /\ in_trace' = Append(in_trace, "_regenerate_lockfile")
    /\ \E out \in RunOutcomes :
           /\ in_lock' = out
           /\ in_ok' = ((out = "ok") /\ in_ok)
    /\ in_pc' = "_validate_project"
    /\ UNCHANGED <<tree, in_fetch, in_import, in_stale, in_result, tree_lic>>
    /\ InFrame

\* ok = _validate_project(root, config) and ok
ValidateProject ==
    /\ in_pc = "_validate_project"
    /\ in_trace' = Append(in_trace, "_validate_project")
    /\ \E out \in RunOutcomes :
           LET stale == find_stale_references(tree)
           IN  /\ in_import' = out
               /\ in_stale' = IF stale = {} THEN "clean" ELSE "stale"
               /\ in_ok' = ((out = "ok" /\ stale = {}) /\ in_ok)
    /\ in_pc' = "cleanup_template_infrastructure"
    /\ UNCHANGED <<tree, in_fetch, in_lock, in_result, tree_lic>>
    /\ InFrame

CleanupTemplateInfrastructure ==
    InCall("cleanup_template_infrastructure",
           cleanup_template_infrastructure(tree),
           "_cleanup_documentation_refs")

\* _cleanup_documentation_refs(root); return ok
CleanupDocumentationRefs ==
    /\ in_pc = "_cleanup_documentation_refs"
    /\ in_trace' = Append(in_trace, "_cleanup_documentation_refs")
    /\ tree' = cleanup_documentation_refs(tree)
    /\ in_result' = [kind |-> "returned", value |-> in_ok]
    /\ in_pc' = "done"
    /\ UNCHANGED <<in_ok, in_fetch, in_lock, in_import, in_stale, tree_lic>>
    /\ InFrame

InNext ==
    \/ RenamePackageDir
    \/ UpdateAllReferences
    \/ UpdateReadmeBadges
    \/ UpdateKeywords
    \/ ResetVersionAndChangelog
    \/ RemoveTodoComments
    \/ UpdateReadmeStructure
    \/ SetupLicenseIfNeeded
    \/ StripTemplateSections
    \/ StripInitReferences
    \/ EnablePypi
    \/ RegenerateLockfile
    \/ ValidateProject
    \/ CleanupTemplateInfrastructure
    \/ CleanupDocumentationRefs

SpecInit == InInit /\ [][InNext]_vars

(***************************************************************************)
(* Claims about init_project                                               *)
(***************************************************************************)
\* The license API was asked and gave no usable body.
FetchFailed == in_fetch \in {"empty", "exception"}

\* C7: the value init_project returns is the conjunction of the outcomes of
\* the license fetch, the lockfile regeneration and the import and
\* stale-reference check; with a license other than 'none' whose body could
\* not be fetched it is False.
C7_ResultIsConjunctionOfOutcomes ==
    in_result.kind = "returned" =>
        (in_result.value <=> /\ ~FetchFailed
                             /\ in_lock = "ok"
                             /\ in_import = "ok"
                             /\ in_stale = "clean")

\* The fixed pipeline of init_project for a configuration.
Pipeline(config) ==
    <<"_rename_package_dir", "_update_all_references",
      "_update_readme_badges", "update_keywords",
      "reset_version_and_changelog", "remove_todo_comments",
      "_update_readme_structure", "_setup_license_if_needed",
      "strip_template_sections", "_strip_init_references">>
    \o (IF config.enable_pypi THEN <<"enable_pypi">> ELSE <<>>)
    \o <<"_regenerate_lockfile", "_validate_project",
         "cleanup_template_infrastructure", "_cleanup_documentation_refs">>

\* One of the four soft warnings was raised.
SoftWarning ==
    \/ FetchFailed
    \/ in_lock \in {"CalledProcessError", "FileNotFoundError"}
    \/ in_import \in {"CalledProcessError", "FileNotFoundError"}
    \/ in_stale = "stale"

\* C8: the steps run in the order of the fixed pipeline, and once the license
\* fetch, 'uv lock', the import check or the stale-reference scan has failed
\* the call still runs every later step, ends with
\* cleanup_template_infrastructure and _cleanup_documentation_refs, and
\* returns False.
C8_SoftWarningsNeverStopThePipeline ==
    /\ in_pc # "idle" =>
           in_trace = SubSeq(Pipeline(cfg), 1, Len(in_trace))
    /\ (SoftWarning /\ in_pc = "done") =>
           /\ in_result.kind = "returned"
           /\ in_trace = Pipeline(cfg)
           /\ in_result.value = FALSE

\* The spellings of 'none' a license key can have.
NoneSpellings == { <<"none">>, <<"None">>, <<"NONE">> }

IsPyFile(path) == PathName(path)[Len(PathName(path))] = ".py"

\* The lines of a packaging file that carry the license field or a license
\* classifier.
LicenseLines(text) ==
    SelectSeq(SplitLines(text),
              LAMBDA ln :
                  \/ "license = {text = " \in Range(ln)
                  \/ "license: " \in Range(ln)
                  \/ \E spdx \in DOMAIN CLASSIFIER_MAP :
                         Contains(ln, CLASSIFIER_MAP[spdx]))

\* C9: with license_key 'none' in any letter case, at every point of
\* init_project there is no LICENSE_HEADER file, LICENSE is as it was, the
\* pre-commit configuration has no insert-license hook, the license field
\* and classifier lines of pyproject.toml and recipe/meta.yaml are as they
\* were, and no .py file has a Copyright or SPDX comment line.
C9_LicenseNoneIsACompleteSkip ==
    (in_pc # "idle" /\ cfg.license_key \in NoneSpellings) =>
        /\ P_LICENSE_HEADER \notin DOMAIN tree
        /\ (P_LICENSE \in DOMAIN tree) = (P_LICENSE \in DOMAIN tree0)
        /\ P_LICENSE \in DOMAIN tree => tree[P_LICENSE] = tree0[P_LICENSE]
        /\ P_PRECOMMIT \in DOMAIN tree =>
               ~Contains(tree[P_PRECOMMIT], <<"      - id: insert-license">>)
        /\ \A p \in {P_PYPROJECT, P_META} :
               /\ (p \in DOMAIN tree) = (p \in DOMAIN tree0)
               /\ p \in DOMAIN tree =>
                      LicenseLines(tree[p]) = LicenseLines(tree0[p])
        /\ \A p \in DOMAIN tree :
               IsPyFile(p) =>
                   /\ ~Contains(tree[p], <<"# ", "Copyright ">>)
                   /\ ~Contains(tree[p], <<"# ", "SPDX-License-Identifier: ">>)

\* init_project has returned for license_key 'None' on a tree that holds the
\* packaging files, the pre-commit configuration and .py files.
C9_Witness ==
    /\ in_result.kind = "returned"
    /\ cfg.license_key = <<"None">>
    /\ {P_PYPROJECT, P_META, P_PRECOMMIT, P_LICENSE} \subseteq DOMAIN tree
    /\ \E p \in DOMAIN tree : IsPyFile(p) /\ p[1] = cfg.snake_name
    /\ "_setup_license_if_needed" \in Range(in_trace)

\* C10: with a license other than 'none', when init_project has returned,
\* every .py file below <snake_name>/ or tests/ is the file as it was when
\* the license step began with the two header lines put first, or put after
\* the first line when that line is a shebang; each header line is there
\* once.
C10_HeaderOnceAtTheTop ==
    (in_result.kind = "returned" /\ cfg.license_key \notin NoneSpellings) =>
        \A p \in DOMAIN tree :
            (Len(p) >= 2 /\ p[1] \in {cfg.snake_name, <<"tests">>}
                 /\ IsPyFile(p)) =>
                LET lines == SplitLines(tree[p])
                    orig == SplitLines(tree_lic[p])
                    h1 == <<"# ", "Copyright ">> \o Year \o <<" ">>
                              \o cfg.author
                    h2 == <<"# ", "SPDX-License-Identifier: ">>
                              \o spdx_id_for_key(cfg.license_key)
                IN  /\ lines = IF StartsWith(orig[1], <<"#!">>)
                               THEN << orig[1], h1, h2 >> \o Tail(orig)
                               ELSE << h1, h2 >> \o orig
                    /\ Cardinality({ i \in 1..Len(lines) : lines[i] = h1 }) = 1
                    /\ Cardinality({ i \in 1..Len(lines) : lines[i] = h2 }) = 1

(***************************************************************************)
(* cli.main: the 'new' command                                             *)
(***************************************************************************)
\* _collect_config_kwargs: the kwargs main hands to scaffold; every required
\* field is a key, None when its flag was not given.
MainKwargs == [owner |-> sc_in.kw_owner, name |-> sc_in.kw_name, rest |-> sc_in.kw_rest]

\* _needs_interactive(kwargs): some required field is None
needs_interactive(kw) == kw.owner = "None" \/ kw.name = "None" \/ ~kw.rest

\* main: scaffold is called with github_owner = ns.github_owner, the value
\* that is also in the kwargs, and with
\* interactive = _needs_interactive(kwargs) and is_interactive().
FromMain ==
    /\ sc_in.kw_owner = sc_in.owner
    /\ sc_in.interactive => needs_interactive(MainKwargs)

\* A required flag is missing and stdin is not a terminal.
MissingWithoutTerminal ==
    FromMain /\ needs_interactive(MainKwargs) /\ ~sc_in.interactive

\* C11: in the 'new' command, when a required field is missing and stdin is
\* not an interactive terminal, the run fails fast: no prompt is shown, no
\* template is downloaded, no target directory is created, the missing value
\* makes no exception escape, and the run ends with a failure exit code.
C11_MissingFieldFailsFast ==
    MissingWithoutTerminal =>
        /\ "_prompt_missing_config" \notin Called
        /\ "download_tarball" \notin Called
        /\ sc_target \in {"absent", "preexisting"}
        /\ sc_rc.kind = "raised" =>
               sc_rc.exc \notin {"AttributeError", "TypeError"}
        /\ sc_rc.kind = "returned" => sc_rc.code # 0

(***************************************************************************)
(* The pure functions of scripts/init.py, applied to bounded arguments     *)
(***************************************************************************)
MaxNameLen == 3
MaxTomlLen == 4
MaxLines == 4
MaxApply == 2

\* Names: words, a stdlib module, a digit, both separators, an upper-case
\* word and a newline.
FnNameAtoms == { "my", "x", "os", "2", "-", "_", "Acme", "\n" }

\* Every short string over the atoms, the template's own names and two
\* longer names with both separators.
FnNames ==
    SeqsUpTo(FnNameAtoms, MaxNameLen)
        \cup { TPL_KEBAB, TPL_SNAKE, <<"my", "-", "x", "_", "2">>,
               <<"my", "_", "x", "_", "2">> }

\* Single-line strings over letters, a space, the backslash and the quote;
\* here every atom is one character.
FnTomlAtoms == { "a", "n", " ", "\\", "\"" }

FnTomlStrings == SeqsUpTo(FnTomlAtoms, MaxTomlLen)

\* Lines of a document with TEMPLATE-ONLY markers
FnMarkerLines == { MARKER_START, <<"  ">> \o MARKER_END, <<"a">>, <<"b">>, <<>> }

FnMarkerContents ==
    { JoinLines(ls) : ls \in SeqsUpTo(FnMarkerLines, MaxLines) \ {<<>>} }

FnReplacements == { <<"R">>, <<"R", "\n", "S", "\n">> }

\* Lines of a workflow with PYPI markers
FnPypiLines ==
    { <<"      ", "# ", "PYPI-START">>, <<"      ", "# ", "PYPI-END">>,
      <<"      ", "# ", "run">>, <<"      ", "#">>, <<"name">>,
      <<"# ", "# ", "note">> }

FnPypiContents ==
    { JoinLines(ls) : ls \in SeqsUpTo(FnPypiLines, MaxLines) \ {<<>>} }

FnCall(kind, arg, repl) == [kind |-> kind, arg |-> arg, repl |-> repl]

FnInit ==
    /\ ExIdle
    /\ ScIdle
    /\ SuIdle
    /\ InIdle
    /\ CfIdle
    /\ RsIdle
    /\ VcIdle
    /\ fn_in \in { FnCall("name", n, <<>>) : n \in FnNames }
                 \cup { FnCall("toml", t, <<>>) : t \in FnTomlStrings }
                 \cup { FnCall("marker", c, r) :
                          c \in FnMarkerContents, r \in FnReplacements }
                 \cup { FnCall("pypi", c, <<>>) : c \in FnPypiContents }
    /\ fn_val = fn_in.arg
    /\ fn_trace = <<>>

FnApply(fn, val) ==
    /\ fn_val' = val
    /\ fn_trace' = Append(fn_trace, fn)
    /\ UNCHANGED fn_in
    /\ UNCHANGED <<exVars, scVars, suVars, inVars, cfVars, rsVars, vcVars>>

NameTransforms == { "to_snake", "to_kebab" }

\* to_snake(name)
ApplyToSnake ==
    /\ fn_in.kind = "name"
    /\ Len(fn_trace) < MaxApply
    /\ Range(fn_trace) \subseteq NameTransforms
    /\ FnApply("to_snake", to_snake(fn_val))

\* to_kebab(name)
ApplyToKebab ==
    /\ fn_in.kind = "name"
    /\ Len(fn_trace) < MaxApply
    /\ Range(fn_trace) \subseteq NameTransforms
    /\ FnApply("to_kebab", to_kebab(fn_val))

\* validate_name(name): the value is "ok" or the ValueError raised
ApplyValidateName ==
    /\ fn_in.kind = "name"
    /\ fn_trace = <<>>
    /\ FnApply("validate_name", << validate_name(fn_val) >>)

\* escape_toml_string(value)
ApplyEscapeTomlString ==
    /\ fn_in.kind = "toml"
    /\ fn_trace = <<>>
    /\ FnApply("escape_toml_string", escape_toml_string(fn_val))

\* _replace_marker_section(content, replacement)
ApplyReplaceMarkerSection ==
    /\ fn_in.kind = "marker"
    /\ Len(fn_trace) < MaxApply
    /\ FnApply("_replace_marker_section",
               replace_marker_section(fn_val, fn_in.repl))

\* enable_pypi(root) on a tree whose release.yml holds the content
ApplyEnablePypi ==
    /\ fn_in.kind = "pypi"
    /\ Len(fn_trace) < MaxApply
    /\ FnApply("enable_pypi",
               enable_pypi((P_RELEASE :> fn_val) @@ <<>>)[P_RELEASE])

FnNext ==
    \/ ApplyToSnake
    \/ ApplyToKebab
    \/ ApplyValidateName
    \/ ApplyEscapeTomlString
    \/ ApplyReplaceMarkerSection
    \/ ApplyEnablePypi

SpecPure == FnInit /\ [][FnNext]_vars

\* The argument is a name that validate_name accepts.
ValidName == fn_in.kind = "name" /\ validate_name(fn_in.arg) = "ok"

\* C14: for every valid name n, to_kebab(to_snake(n)) = to_kebab(n) and
\* to_snake(to_kebab(n)) = to_snake(n), and to_kebab and to_snake are each
\* idempotent.
C14_KebabSnakeRoundTrip ==
    ValidName =>
        /\ fn_trace = <<"to_snake", "to_kebab">> => fn_val = to_kebab(fn_in.arg)
        /\ fn_trace = <<"to_kebab", "to_snake">> => fn_val = to_snake(fn_in.arg)
        /\ fn_trace = <<"to_kebab", "to_kebab">> => fn_val = to_kebab(fn_in.arg)
        /\ fn_trace = <<"to_snake", "to_snake">> => fn_val = to_snake(fn_in.arg)

\* A valid name with both separators went through to_snake, then to_kebab.
C14_Witness ==
    /\ ValidName
    /\ fn_in.arg = <<"my", "-", "x", "_", "2">>
    /\ fn_trace = <<"to_snake", "to_kebab">>
    /\ fn_val = <<"my", "-", "x", "-", "2">>

\* (a) of validate_name's contract, on the whole string: it starts with a
\* lowercase letter, ends with a lowercase letter or digit and holds only
\* characters of [a-z0-9_-].
NameShape(n) ==
    /\ n # <<>>
    /\ \A i \in 1..Len(n) :
           n[i] \in LowerWordAtoms \cup LowerDigitAtoms \cup DigitAtoms
                      \cup {"-", "_"}
    /\ n[1] \in LowerWordAtoms \cup LowerDigitAtoms
    /\ n[Len(n)] \in LowerWordAtoms \cup LowerDigitAtoms \cup DigitAtoms

\* C15: validate_name accepts a string if and only if its whole text has the
\* name shape, it is neither of the template's default names and its
\* snake-case form is not a stdlib module; a shape violation is the error
\* reported whenever the shape is violated.
C15_ValidateNameAcceptsExactlyTheNames ==
    fn_trace = <<"validate_name">> =>
        LET n == fn_in.arg
            r == fn_val[1]
        IN  /\ r = "ok" <=> /\ NameShape(n)
                            /\ n \notin {TPL_KEBAB, TPL_SNAKE}
                            /\ to_snake(n) \notin STDLIB_NAMES
            /\ ~NameShape(n) => r = "invalid_shape"

\* The escapes of a TOML basic string that the alphabet can spell:
\* backslash-backslash, backslash-quote and backslash-n.  A backslash before
\* any other character of the alphabet is not an escape of TOML.
TomlEscapes == ("\\" :> "\\") @@ ("\"" :> "\"") @@ ("n" :> "\n")

RECURSIVE TomlDecodeFrom(_, _)
\* Reading body[i..] as the inside of a TOML basic string: the text it
\* denotes, or ok = FALSE where a conforming reader rejects it (an unescaped
\* quote ends the string early; a backslash must start an escape).
TomlDecodeFrom(body, i) ==
    IF i > Len(body) THEN [ok |-> TRUE, text |-> <<>>]
    ELSE IF body[i] = "\"" THEN [ok |-> FALSE, text |-> <<>>]
    ELSE IF body[i] = "\\"
    THEN IF i < Len(body) /\ body[i + 1] \in DOMAIN TomlEscapes
         THEN LET r == TomlDecodeFrom(body, i + 2)
              IN  [ok |-> r.ok, text |-> << TomlEscapes[body[i + 1]] >> \o r.text]
         ELSE [ok |-> FALSE, text |-> <<>>]
    ELSE LET r == TomlDecodeFrom(body, i + 1)
         IN  [ok |-> r.ok, text |-> << body[i] >> \o r.text]

TomlDecode(body) == TomlDecodeFrom(body, 1)

\* Number of occurrences of an atom in a text
CountAtom(text, a) == Cardinality({ i \in 1..Len(text) : text[i] = a })

\* C16: escape_toml_string round-trips: reading escape_toml_string(s) as the
\* body of a TOML basic string gives exactly s, and the output holds two
\* backslashes for each backslash of s and one for each quote of s (the
\* backslash added for a quote is not doubled).
C16_EscapeTomlRoundTrip ==
    fn_trace = <<"escape_toml_string">> =>
        /\ TomlDecode(fn_val) = [ok |-> TRUE, text |-> fn_in.arg]
        /\ CountAtom(fn_val, "\\") =
               2 * CountAtom(fn_in.arg, "\\") + CountAtom(fn_in.arg, "\"")

\* A string with a backslash directly before a quote has been escaped.
C16_Witness ==
    /\ fn_trace = <<"escape_toml_string">>
    /\ fn_in.arg = <<"a", "\\", "\"", "n">>
    /\ fn_val = <<"a", "\\", "\\", "\\", "\"", "n">>

\* A marker line: the marker occurs somewhere in the line.
IsStartLine(line) == Contains(line, MARKER_START)

IsEndLine(line) == Contains(line, MARKER_END)

RECURSIVE OutsideRegions(_, _, _)
\* lines[i..] with every region replaced: a region runs from a START marker
\* line through its END marker line, the first END marker line after it;
\* every line that is in no region is kept.
OutsideRegions(lines, repl, i) ==
    IF i > Len(lines) THEN <<>>
    ELSE LET ends == { j \in (i + 1)..Len(lines) : IsEndLine(lines[j]) }
         IN  IF IsStartLine(lines[i]) /\ ends # {}
             THEN LET j == CHOOSE e \in ends : \A f \in ends : e <= f
                  IN  << repl >> \o OutsideRegions(lines, repl, j + 1)
             ELSE << lines[i] >> \o OutsideRegions(lines, repl, i + 1)

\* C17: for every content, the output of _replace_marker_section holds the
\* replacement text in place of each region from a START marker line through
\* its END marker line, no line of a region, and every line outside the
\* regions unchanged and in the original order.
C17_OnlyMarkerRegionsAreReplaced ==
    fn_trace = <<"_replace_marker_section">> =>
        fn_val = JoinLines(OutsideRegions(SplitLines(fn_in.arg),
                                          RStrip(fn_in.repl, {"\n"}), 1))

\* The PYPI marker lines
IsPypiStart(line) == Contains(line, <<"# ", "PYPI-START">>)

IsPypiEnd(line) == Contains(line, <<"# ", "PYPI-END">>)

\* Line k comes after a START marker line with no END marker line between.
PypiOpenAt(lines, k) ==
    \E i \in 1..(k - 1) :
        /\ IsPypiStart(lines[i])
        /\ \A m \in (i + 1)..(k - 1) : ~IsPypiEnd(lines[m])

\* An END marker line follows line k.
PypiClosedAfter(lines, k) == \E j \in (k + 1)..Len(lines) : IsPypiEnd(lines[j])

\* Line k is strictly between a START and an END marker line.
InPypiBlock(lines, k) ==
    /\ ~IsPypiStart(lines[k])
    /\ ~IsPypiEnd(lines[k])
    /\ PypiOpenAt(lines, k)
    /\ PypiClosedAfter(lines, k)

\* A bare '#' after the indentation
IsBareComment(line) == LStrip(line) = <<"#">>

\* A leading '# ' comment layer after the indentation
HasCommentLayer(line) == StartsWith(LStrip(line), <<"# ">>)

\* The line without its leading '# ' layer, the indentation kept
WithoutCommentLayer(line) ==
    LET rest == LStrip(line)
    IN  SubSeq(line, 1, Len(line) - Len(rest)) \o Tail(rest)

\* What the contract leaves of line k: nothing of a marker line of a pair
\* and of a bare '#' in the block, a block line without one comment layer,
\* any other line as it is.
PypiLineAfter(lines, k) ==
    IF IsPypiStart(lines[k]) /\ PypiClosedAfter(lines, k) THEN <<>>
    ELSE IF IsPypiEnd(lines[k]) /\ PypiOpenAt(lines, k) THEN <<>>
    ELSE IF InPypiBlock(lines, k)
    THEN IF IsBareComment(lines[k]) THEN <<>>
         ELSE IF HasCommentLayer(lines[k])
         THEN << WithoutCommentLayer(lines[k]) >>
         ELSE << lines[k] >>
    ELSE << lines[k] >>

RECURSIVE PypiLinesAfter(_, _)
PypiLinesAfter(lines, k) ==
    IF k > Len(lines) THEN <<>>
    ELSE PypiLineAfter(lines, k) \o PypiLinesAfter(lines, k + 1)

\* C18: enable_pypi rewrites release.yml so that every line strictly between
\* a PYPI-START and a PYPI-END marker line loses exactly one leading '# '
\* layer (indentation kept) or is dropped if it is a bare '#', the two marker
\* lines are removed, and every line outside the markers is written back
\* unchanged and in order.
C18_OnlyThePypiBlockIsUncommented ==
    fn_trace = <<"enable_pypi">> =>
        LET lines == SplitLines(fn_in.arg)
        IN  /\ \A k \in 1..Len(lines) :
                   InPypiBlock(lines, k) =>
                       IsBareComment(lines[k]) \/ HasCommentLayer(lines[k])
            /\ fn_val = JoinLines(PypiLinesAfter(lines, 1))

(***************************************************************************)
(* setup_ruleset (cli/src/pypkgkit/github.py)                              *)
(***************************************************************************)
MaxCalls == 3

\* _RULESET_NAME
RULESET_NAME == "main branch protection"

\* The rulesets of the repository that carry the name
Named(rulesets) == { r \in rulesets : r.name = RULESET_NAME }

\* The repository before the first call: with or without the named ruleset,
\* with or without a ruleset of another name.
RsInit ==
    /\ ExIdle
    /\ ScIdle
    /\ SuIdle
    /\ InIdle
    /\ CfIdle
    /\ FnIdle
    /\ VcIdle
    /\ rs_rulesets \in SUBSET { [id |-> 1, name |-> RULESET_NAME, reviews |-> 0],
                               [id |-> 2, name |-> "docs", reviews |-> 0] }
    /\ rs_pc = "ready"
    /\ rs_existing = {}
    /\ rs_calls = 0
    /\ rs_log = <<>>
    /\ rs_rc = 0

\* result = _run_cmd(['gh', 'api', 'repos/.../rulesets', '--jq', ...]);
\* existing_id = result.stdout.strip() if result.returncode == 0 else ''
\* The ids the filter prints are kept as a set; the empty set is ''.
ListRulesets ==
    /\ rs_pc = "ready"
    /\ rs_calls < MaxCalls
    /\ rs_calls' = rs_calls + 1
    /\ \E returncode \in {0, 1} :
         rs_existing' = IF returncode = 0
                        THEN { r.id : r \in Named(rs_rulesets) }
                        ELSE {}
    /\ rs_pc' = "send"
    /\ UNCHANGED <<rs_rulesets, rs_log, rs_rc>>
    /\ UNCHANGED <<exVars, scVars, suVars, inVars, cfVars, fnVars, vcVars>>

\* The request of the second _run_cmd
RulesetRequest(existing, rulesets) ==
    [ method  |-> IF existing # {} THEN "PUT" ELSE "POST",
      target  |-> existing,
      existed |-> Named(rulesets) # {} ]

\* if existing_id: PUT to rulesets/{existing_id} else: POST to rulesets;
\* return result.returncode.  The server may refuse any request; a POST it
\* accepts creates a ruleset with a fresh id, a PUT it accepts rewrites the
\* ruleset with that id.
SendRuleset ==
    /\ rs_pc = "send"
    /\ rs_log' = Append(rs_log, RulesetRequest(rs_existing, rs_rulesets))
    /\ \E reviews \in {0, 1}, accepted \in BOOLEAN :
         IF ~accepted
         THEN /\ rs_rc' = 1
              /\ UNCHANGED rs_rulesets
         ELSE IF rs_existing = {}
         THEN /\ rs_rulesets' = rs_rulesets \cup
                     { [ id      |-> 3 + Len(rs_log),
                         name    |-> RULESET_NAME,
                         reviews |-> reviews ] }
              /\ rs_rc' = 0
         ELSE IF \E r \in rs_rulesets : rs_existing = {r.id}
         THEN /\ rs_rulesets' =
                     { IF rs_existing = {r.id}
                       THEN [r EXCEPT !.reviews = reviews] ELSE r :
                       r \in rs_rulesets }
              /\ rs_rc' = 0
         ELSE /\ rs_rc' = 1
              /\ UNCHANGED rs_rulesets
    /\ rs_pc' = "ready"
    /\ UNCHANGED <<rs_existing, rs_calls>>
    /\ UNCHANGED <<exVars, scVars, suVars, inVars, cfVars, fnVars, vcVars>>

RsNext ==
    \/ ListRulesets
    \/ SendRuleset

SpecRuleset == RsInit /\ [][RsNext]_vars

\* C13: setup_ruleset is idempotent: a ruleset with the name that exists is
\* updated by PUT to its id and POST is sent only when none exists, so after
\* any number of calls, whatever the list call answered, the repository
\* holds at most one ruleset with the name.
C13_AtMostOneNamedRuleset ==
    /\ Cardinality(Named(rs_rulesets)) <= 1
    /\ \A i \in 1..Len(rs_log) :
           IF rs_log[i].existed
           THEN rs_log[i].method = "PUT"
           ELSE rs_log[i].method = "POST"

(***************************************************************************)
(* Building the ProjectConfig: prompt_project_config (scripts/init.py),    *)
(* _prompt_missing_config (scaffold.py), prompt_text (prompt.py) and       *)
(* run_init (init_bridge.py)                                               *)
(***************************************************************************)
MaxPrompts == 6

\* _CONFIG_FIELDS, in the order both prompt functions go through them
FIELDS == <<"name", "author", "email", "github_owner", "description">>

\* A value that is None, or a string
NoValue == [given |-> FALSE, text |-> <<>>]

StrValue(text) == [given |-> TRUE, text |-> text]

\* bool(value) for a value that is None or a string
Truthy(v) == v.given /\ v.text # <<>>

\* The validator of a field: "ok", or the ValueError it raises
validate(f, text) ==
    CASE f = "name" -> validate_name(text)
      [] f = "author" -> validate_author_name(text)
      [] f = "email" -> validate_email(text)
      [] f = "github_owner" -> validate_github_owner(text)
      [] f = "description" -> validate_description(text)

\* For each field a text its validator accepts and one it rejects
GoodText ==
    [ f \in Range(FIELDS) |->
        CASE f = "name" -> <<"my", "_", "pkg">>
          [] f = "author" -> <<"Jane Doe">>
          [] f = "email" -> <<"jane", "@", "example.com">>
          [] f = "github_owner" -> <<"jane">>
          [] f = "description" -> <<"A test package">> ]

BadText ==
    [ f \in Range(FIELDS) |->
        CASE f = "name" -> <<"Acme">>
          [] f = "author" -> <<"Jane", "\n", "Doe">>
          [] f = "email" -> <<"jane">>
          [] f = "github_owner" -> <<"-", "jane">>
          [] f = "description" -> <<" ">> ]

\* What a flag can hold: nothing, an acceptable text, an unacceptable one
FlagValues(f) == { NoValue, StrValue(GoodText[f]), StrValue(BadText[f]) }

\* What input() can give at the prompt of a field: a line without its
\* newline (empty, an acceptable text with blanks around it, an
\* unacceptable text), or KeyboardInterrupt / EOFError.
PromptEvents(f) ==
    { [kind |-> "line", raw |-> <<>>],
      [kind |-> "line", raw |-> <<" ">> \o GoodText[f] \o <<"  ">>],
      [kind |-> "line", raw |-> IF "\n" \in Range(BadText[f])
                                THEN <<" ">> ELSE BadText[f]],
      [kind |-> "KeyboardInterrupt", raw |-> <<>>],
      [kind |-> "EOFError", raw |-> <<>>] }

\* The defaults _prompt_missing_config detects for a field: none, an
\* acceptable text or an unacceptable one; the description has no default.
DetectedDefaults(f) ==
    IF f = "description" THEN { NoValue }
    ELSE { NoValue, StrValue(GoodText[f]), StrValue(BadText[f]) }

\* The three ways to a ProjectConfig: init.py's own main, scaffold with
\* interactive = True, scaffold with interactive = False.
FlagSets ==
    { [ name |-> n, author |-> a, email |-> e, github_owner |-> o,
        description |-> d ] :
        n \in FlagValues("name"), a \in FlagValues("author"),
        e \in FlagValues("email"), o \in FlagValues("github_owner"),
        d \in FlagValues("description") }

\* PYPKGKIT_DEBUG: not in the environment, set to '', set to '1'
DebugValues == { "unset", "empty", "1" }

CfInputs ==
    { [path |-> "init", tty |-> tty, debug |-> "unset", flags |-> fl] :
        tty \in BOOLEAN, fl \in FlagSets }
    \cup
    { [path |-> pa, tty |-> TRUE, debug |-> db, flags |-> fl] :
        pa \in {"scaffold_prompt", "scaffold_flags"}, db \in DebugValues,
        fl \in FlagSets }

CfInit ==
    /\ ExIdle
    /\ ScIdle
    /\ SuIdle
    /\ InIdle
    /\ RsIdle
    /\ FnIdle
    /\ VcIdle
    /\ cf_in \in CfInputs
    /\ cf_pc = CASE cf_in.path = "init" -> "required"
                 [] cf_in.path = "scaffold_prompt" -> "fields"
                 [] cf_in.path = "scaffold_flags" -> "run_init"
    /\ cf_i = 1
    /\ cf_kw = cf_in.flags
    /\ cf_default = NoValue
    /\ cf_prompts = 0
    /\ cf_last = [kind |-> "none"]
    /\ cf_stderr = <<>>
    /\ cf_config = [kind |-> "none"]
    /\ cf_result = [kind |-> "running"]

CfFrame == UNCHANGED <<exVars, scVars, suVars, inVars, rsVars, fnVars, vcVars>>

\* sys.exit(code), or SystemExit(code) raised and turned into the exit code
CfExit(code) ==
    /\ cf_result' = [kind |-> "exit", code |-> code]
    /\ cf_pc' = "done"

\* an exception nothing catches
CfRaise(exc) ==
    /\ cf_result' = [kind |-> "raised", exc |-> exc]
    /\ cf_pc' = "done"

\* prompt_text without the validator call
prompt_text_unvalidated(f, default, ev) ==
    IF ev.kind # "line" THEN [outcome |-> "abort", value |-> <<>>]
    ELSE LET raw == Strip(ev.raw)
             value == IF raw # <<>> THEN raw
                      ELSE IF Truthy(default) THEN default.text ELSE <<>>
         IN  IF value = <<>> THEN [outcome |-> "again", value |-> <<>>]
             ELSE [outcome |-> "return", value |-> value]

\* One turn of the loop of prompt_text with the validator of field f:
\* input() raises -> _abort(); value = raw or (default or ''); an empty
\* value or a ValueError of the validator -> continue; else return value.
prompt_text(f, default, ev) ==
    IF ev.kind # "line" THEN [outcome |-> "abort", value |-> <<>>]
    ELSE LET raw == Strip(ev.raw)
             value == IF raw # <<>> THEN raw
                      ELSE IF Truthy(default) THEN default.text ELSE <<>>
         IN  IF value = <<>> THEN [outcome |-> "again", value |-> <<>>]
             ELSE IF validate(f, value) # "ok"
             THEN [outcome |-> "again", value |-> <<>>]
             ELSE [outcome |-> "return", value |-> value]

\* _prompt_missing_config between two prompts: 'if not result.get(field)'
\* for the fields in order; a field that holds a non-empty value is passed
\* over, the first missing one starts a prompt_text call with the default
\* detected for it; after the last field come the remaining prompts.
NextField ==
    /\ cf_pc = "fields"
    /\ LET missing == { i \in cf_i..Len(FIELDS) : ~Truthy(cf_kw[FIELDS[i]]) }
       IN  IF missing = {}
           THEN /\ cf_pc' = "confirm"
                /\ cf_i' = Len(FIELDS)
                /\ UNCHANGED cf_default
           ELSE LET i == CHOOSE m \in missing : \A n \in missing : m <= n
                IN  /\ cf_i' = i
                    /\ cf_pc' = "prompt"
                    /\ \E d \in DetectedDefaults(FIELDS[i]) :
                           cf_default' = IF Truthy(cf_kw[FIELDS[i]])
                                         THEN cf_kw[FIELDS[i]] ELSE d
    /\ UNCHANGED <<cf_in, cf_kw, cf_prompts, cf_last, cf_stderr, cf_config,
                   cf_result>>
    /\ CfFrame

\* prompt_text: one input() and what the loop does with it
PromptTextInput ==
    /\ cf_pc = "prompt"
    /\ cf_prompts < MaxPrompts
    /\ cf_prompts' = cf_prompts + 1
    /\ \E ev \in PromptEvents(FIELDS[cf_i]) :
         LET r == prompt_text(FIELDS[cf_i], cf_default, ev)
         IN  /\ cf_last' = ev
             /\ CASE r.outcome = "abort" ->
                       /\ CfExit(130)
                       /\ UNCHANGED <<cf_kw, cf_i>>
                  [] r.outcome = "again" ->
                       UNCHANGED <<cf_kw, cf_i, cf_pc, cf_result>>
                  [] r.outcome = "return" ->
                       /\ cf_kw' = [cf_kw EXCEPT ![FIELDS[cf_i]] =
                                        StrValue(r.value)]
                       /\ cf_i' = cf_i
                       /\ cf_pc' = "fields"
                       /\ UNCHANGED cf_result
    /\ UNCHANGED <<cf_in, cf_default, cf_stderr, cf_config>>
    /\ CfFrame

\* The rest of _prompt_missing_config: the PyPI and license prompts, the
\* summary and prompt_confirm('Proceed?'); declining raises SystemExit(0),
\* KeyboardInterrupt or EOF at any of them SystemExit(130), and scaffold
\* returns the code.
ConfirmProceed ==
    /\ cf_pc = "confirm"
    /\ \E answer \in {"proceed", "decline", "interrupt"} :
         CASE answer = "proceed" ->
                /\ cf_pc' = "run_init"
                /\ UNCHANGED cf_result
           [] answer = "decline" -> CfExit(0)
           [] answer = "interrupt" -> CfExit(130)
    /\ UNCHANGED <<cf_in, cf_i, cf_kw, cf_default, cf_prompts, cf_last,
                   cf_stderr, cf_config>>
    /\ CfFrame

\* What init_project can do with a configuration: return True, return
\* False, or raise; with a field that is None it raises when it first uses
\* the field as a string.
InitProjectOutcomes(kw) ==
    IF \E f \in Range(FIELDS) : ~kw[f].given
    THEN { "Exception" }
    ELSE { "True", "False", "Exception" }

\* The lines the except clause of run_init writes: 'error: ...', and the
\* traceback if os.environ.get('PYPKGKIT_DEBUG') is truthy.
RunInitErrorLines(debug) ==
    IF debug = "1"
    THEN << <<"error: ", "exc">>, <<"Traceback (most recent call last):">> >>
    ELSE << <<"error: ", "exc">> >>

\* run_init(template_dir, config_kwargs, init_mod):
\*   config = mod.ProjectConfig(**config_kwargs)     (before the try)
\*   try: return mod.init_project(config, template_dir)
\*   except Exception: print the error, the traceback in debug mode,
\*                     return False
\* __post_init__ calls to_snake(name), which raises AttributeError for None.
RunInitCall ==
    /\ cf_pc = "run_init"
    /\ IF ~cf_kw["name"].given
       THEN /\ CfRaise("AttributeError")
            /\ UNCHANGED <<cf_config, cf_stderr>>
       ELSE /\ cf_config' = [kind |-> "config", kw |-> cf_kw]
            /\ cf_pc' = "done"
            /\ \E o \in InitProjectOutcomes(cf_kw) :
                 CASE o = "True" ->
                        /\ cf_result' = [kind |-> "returned", value |-> TRUE]
                        /\ UNCHANGED cf_stderr
                   [] o = "False" ->
                        /\ cf_result' = [kind |-> "returned", value |-> FALSE]
                        /\ UNCHANGED cf_stderr
                   [] o = "Exception" ->
                        /\ cf_result' = [kind |-> "returned", value |-> FALSE]
                        /\ cf_stderr' = cf_stderr \o
                                            RunInitErrorLines(cf_in.debug)
    /\ UNCHANGED <<cf_in, cf_i, cf_kw, cf_default, cf_prompts, cf_last>>
    /\ CfFrame

\* prompt_project_config after _prompt_required gave the text of field
\* cf_i: the name is turned into kebab case, the field's validator runs and
\* its ValueError ends main with 'error: ...' and exit code 1.
SettleRequired(text) ==
    LET f == FIELDS[cf_i]
        stored == IF f = "name" THEN to_kebab(text) ELSE text
    IN  IF validate(f, stored) # "ok"
        THEN /\ CfExit(1)
             /\ cf_stderr' = Append(cf_stderr, <<"error: ", validate(f, stored)>>)
             /\ UNCHANGED <<cf_kw, cf_i>>
        ELSE /\ cf_kw' = [cf_kw EXCEPT ![f] = StrValue(stored)]
             /\ cf_i' = IF cf_i < Len(FIELDS) THEN cf_i + 1 ELSE cf_i
             /\ cf_pc' = IF cf_i < Len(FIELDS) THEN "required" ELSE "finish"
             /\ UNCHANGED <<cf_stderr, cf_result>>

\* _prompt_required(value, prompt, flag) up to its first input(): a value
\* that is non-empty after strip() is returned; a missing one ends the run
\* with 'error: ... is required (use --flag ...)' when stdin is no terminal.
PromptRequired ==
    /\ cf_pc = "required"
    /\ LET v == cf_kw[FIELDS[cf_i]]
       IN  IF v.given /\ Strip(v.text) # <<>>
           THEN SettleRequired(Strip(v.text))
           ELSE IF ~cf_in.tty
           THEN /\ CfExit(1)
                /\ cf_stderr' = Append(cf_stderr,
                                       <<"error: ", "use --", FIELDS[cf_i]>>)
                /\ UNCHANGED <<cf_kw, cf_i>>
           ELSE /\ cf_pc' = "input"
                /\ UNCHANGED <<cf_kw, cf_i, cf_stderr, cf_result>>
    /\ UNCHANGED <<cf_in, cf_default, cf_prompts, cf_last, cf_config>>
    /\ CfFrame

\* The loop of _prompt_required: raw = input(...).strip(); a non-empty raw
\* is returned, an empty one asked for again; KeyboardInterrupt and EOFError
\* are not caught.
RequiredInput ==
    /\ cf_pc = "input"
    /\ cf_prompts < MaxPrompts
    /\ cf_prompts' = cf_prompts + 1
    /\ \E ev \in PromptEvents(FIELDS[cf_i]) :
         /\ cf_last' = ev
         /\ IF ev.kind # "line"
            THEN /\ CfRaise(ev.kind)
                 /\ UNCHANGED <<cf_kw, cf_i, cf_stderr>>
            ELSE IF Strip(ev.raw) = <<>>
            THEN UNCHANGED <<cf_kw, cf_i, cf_pc, cf_stderr, cf_result>>
            ELSE SettleRequired(Strip(ev.raw))
    /\ UNCHANGED <<cf_in, cf_default, cf_config>>
    /\ CfFrame

\* The rest of prompt_project_config and of main: _prompt_pypi and
\* _prompt_license (an unknown key or choice exits with 1), the
\* ProjectConfig, the summary, the confirmation ('n' exits with 0), then
\* init_project and the exit code.
FinishPromptConfig ==
    /\ cf_pc = "finish"
    /\ \E license_ok \in BOOLEAN, confirm \in {"y", "n"}, ok \in BOOLEAN :
         IF ~license_ok
         THEN /\ CfExit(1)
              /\ UNCHANGED cf_config
         ELSE /\ cf_config' = [kind |-> "config", kw |-> cf_kw]
              /\ CfExit(IF confirm = "n" \/ ok THEN 0 ELSE 1)
    /\ UNCHANGED <<cf_in, cf_i, cf_kw, cf_default, cf_prompts, cf_last,
                   cf_stderr>>
    /\ CfFrame

CfNext ==
    \/ NextField
    \/ PromptTextInput
    \/ ConfirmProceed
    \/ RunInitCall
    \/ PromptRequired
    \/ RequiredInput
    \/ FinishPromptConfig

SpecConfig == CfInit /\ [][CfNext]_vars

\* A field value that is a non-empty string its validator accepts
Validated(f, v) == v.given /\ v.text # <<>> /\ validate(f, v.text) = "ok"

\* The paths the contract names: prompt_project_config, scaffold in
\* interactive mode, scaffold in non-interactive mode with every value
\* given as a flag.
OnNamedPath ==
    cf_in.path = "scaffold_flags" =>
        \A f \in Range(FIELDS) : cf_in.flags[f].given

\* C12: on every path to init_project the ProjectConfig is constructed only
\* after name, author, email, github owner and description are all
\* non-empty and each has passed its own validator.
C12_ConfigOnlyFromValidatedFields ==
    (OnNamedPath /\ cf_config.kind = "config") =>
        \A f \in Range(FIELDS) : Validated(f, cf_config.kw[f])

\* The value of a prompt_text turn per its contract: the stripped input, or
\* the default when the stripped input is empty.
PromptValue(ev, default) ==
    IF Strip(ev.raw) # <<>> THEN Strip(ev.raw)
    ELSE IF default.given THEN default.text ELSE <<>>

\* C19: prompt_text re-prompts until the input is acceptable.  At every
\* input read by a prompt_text call: KeyboardInterrupt or EOF ends the run
\* with SystemExit(130); a value that is non-empty and passes the field's
\* validator is returned as the field's value (the stripped input, or the
\* default when the input is empty); any other input leaves the call at its
\* prompt with nothing returned and no error.
C19_PromptTextRepromptsUntilAcceptable ==
    [][ (cf_pc = "prompt" /\ cf_prompts' # cf_prompts) =>
          LET f == FIELDS[cf_i]
              ev == cf_last'
          IN  IF ev.kind # "line"
              THEN cf_result' = [kind |-> "exit", code |-> 130]
              ELSE IF /\ PromptValue(ev, cf_default) # <<>>
                      /\ validate(f, PromptValue(ev, cf_default)) = "ok"
              THEN /\ cf_kw' = [cf_kw EXCEPT ![f] =
                                   StrValue(PromptValue(ev, cf_default))]
                   /\ cf_pc' = "fields"
                   /\ cf_result' = cf_result
              ELSE /\ cf_pc' = "prompt"
                   /\ cf_kw' = cf_kw
                   /\ cf_i' = cf_i
                   /\ cf_result' = [kind |-> "running"] ]_vars

\* The name prompt has returned the detected default on an empty input,
\* after an earlier input that made it ask again.
C19_Witness ==
    /\ cf_in.path = "scaffold_prompt"
    /\ ~cf_in.flags["name"].given
    /\ cf_i = 1
    /\ cf_pc = "fields"
    /\ cf_prompts = 2
    /\ cf_last = [kind |-> "line", raw |-> <<>>]
    /\ cf_default = StrValue(GoodText["name"])
    /\ cf_kw["name"] = StrValue(GoodText["name"])

\* run_init has been called and is over.
RunInitOver ==
    cf_in.path # "init" /\ cf_pc = "done" /\ cf_result.kind # "exit"

\* The lines of stderr that start a traceback / that report an error
TracebackPrinted ==
    \E i \in 1..Len(cf_stderr) :
        cf_stderr[i] = <<"Traceback (most recent call last):">>

ErrorPrinted ==
    \E i \in 1..Len(cf_stderr) : cf_stderr[i][1] = "error: "

\* C20: run_init returns True or False and never raises for a failing
\* initialization: an exception while the configuration is built or while
\* init_project runs gives False with an 'error: ...' line, and the
\* traceback is printed exactly when PYPKGKIT_DEBUG is set (a variable set
\* to the empty string is left open here).
C20_RunInitNeverRaises ==
    RunInitOver =>
        /\ cf_result.kind = "returned"
        /\ ErrorPrinted => cf_result.value = FALSE
        /\ TracebackPrinted => ErrorPrinted
        /\ (ErrorPrinted /\ cf_in.debug = "1") => TracebackPrinted
        /\ cf_in.debug = "unset" => ~TracebackPrinted

(***************************************************************************)
(* Claims about the later steps of scaffold                                *)
(***************************************************************************)
\* The positions in sc_calls at which fn was called.
CallsOf(fn) == { i \in 1..Len(sc_calls) : sc_calls[i].fn = fn }

\* Every call of fn comes before every call of gn.
CalledBefore(fn, gn) == \A i \in CallsOf(fn), j \in CallsOf(gn) : i < j

\* The confirmation prompt was declined: scaffold returned the SystemExit
\* code 0 of _prompt_missing_config.
Declined ==
    /\ sc_pc = "done"
    /\ sc_rc = [kind |-> "returned", code |-> 0]
    /\ Len(sc_calls) > 0
    /\ sc_calls[Len(sc_calls)].fn = "_prompt_missing_config"

\* scaffold ran to its end and returned 0.
Succeeded ==
    /\ sc_pc = "done"
    /\ sc_rc = [kind |-> "returned", code |-> 0]
    /\ ~Declined

OwnerDetectedForConfig ==
    /\ sc_pc # "idle"
    /\ sc_in.github
    /\ sc_in.kw_owner \in {"absent", "None"}
    /\ "detect_gh_owner" \in Called

\* C22: when github is enabled and the config has no owner value (key absent
\* or None), the auto-detected owner is injected into the config: the
\* github_owner that run_init receives is the detected owner, the one that
\* setup_github is called with.
C22_DetectedOwnerInjected ==
    OwnerDetectedForConfig =>
        /\ \A i \in CallsOf("run_init") : sc_calls[i].arg = sc_owner
        /\ \A i \in CallsOf("run_init"), j \in CallsOf("setup_github") :
               sc_calls[i].arg = sc_calls[j].arg

(***************************************************************************)
(* git_init and setup_github (cli/src/pypkgkit/github.py)                  *)
(***************************************************************************)
\* Return codes a subprocess can end with.
ReturnCodes == {0, 1, 128}

\* The entry of a subprocess command, or of a helper call, in the logs.
Ran(cmd, rc) == [cmd |-> cmd, rc |-> rc]

\* git_init: commands = [...]
GIT_INIT_COMMANDS ==
    << <<"git", "init">>,
       <<"git", "add", ".">>,
       <<"git", "commit", "-m", "Initial commit from pypkgkit">> >>

\* err(msg) of _util: the line printed
ErrLine(msg) == <<"error: ", msg>>

VcFrame == UNCHANGED <<exVars, scVars, suVars, inVars, cfVars, rsVars, fnVars>>

\* return rc
VcReturn(rc) ==
    /\ vc_rc' = [kind |-> "returned", code |-> rc]
    /\ vc_pc' = "done"

\* return err(msg)
VcFail(msg) ==
    /\ vc_stderr' = Append(vc_stderr, ErrLine(msg))
    /\ VcReturn(1)

VcInputs ==
    { [op |-> "git_init"] }
    \cup [ op          : {"setup_github"},
           owner       : {"bob"},
           repo_name   : {"proj", "my-pkg"},
           description : {"", "A package"},
           private     : BOOLEAN ]

VcInit ==
    /\ ExIdle
    /\ ScIdle
    /\ SuIdle
    /\ InIdle
    /\ CfIdle
    /\ RsIdle
    /\ FnIdle
    /\ vc_in \in VcInputs
    /\ vc_pc = IF vc_in.op = "git_init" THEN "commands" ELSE "create"
    /\ vc_i = 1
    /\ vc_cmds = <<>>
    /\ vc_calls = <<>>
    /\ vc_stderr = <<>>
    /\ vc_rc = [kind |-> "running"]

\* the loop of git_init never returns early
CommandKeepsGoing(returncode) == FALSE

\* git_init: if result.returncode != 0
CommandFailed(returncode) == returncode # 0

\* git_init: one turn of 'for cmd in commands', and 'return 0' after the loop
GitInitCommand ==
    /\ vc_pc = "commands"
    /\ IF vc_i > Len(GIT_INIT_COMMANDS)
       THEN /\ VcReturn(0)
            /\ UNCHANGED <<vc_i, vc_cmds>>
       ELSE \E returncode \in ReturnCodes :
              /\ vc_cmds' = Append(vc_cmds, Ran(GIT_INIT_COMMANDS[vc_i], returncode))
              /\ IF CommandFailed(returncode)
                 THEN /\ VcReturn(returncode)
                      /\ UNCHANGED vc_i
                 ELSE /\ vc_i' = vc_i + 1
                      /\ UNCHANGED <<vc_pc, vc_rc>>
    /\ UNCHANGED <<vc_in, vc_calls, vc_stderr>>
    /\ VcFrame

\* setup_github goes on whatever a step returned
StepNeverFailed(rc) == FALSE

\* setup_github: if rc != 0
StepFailed(rc) == rc # 0

\* create_github_repo: cmd = ['gh', 'repo', 'create', f'{owner}/{name}', ...]
RepoCreateCommand(in) ==
    <<"gh", "repo", "create", <<in.owner, "/", in.repo_name>>,
      IF in.private THEN "--private" ELSE "--public">>
    \o (IF in.description # "" THEN <<"--description", in.description>> ELSE <<>>)

\* create_github_repo: ['git', 'remote', 'add', 'origin', remote_url]
RemoteAddCommand(in) ==
    <<"git", "remote", "add", "origin",
      <<"https://github.com/", in.owner, "/", in.repo_name, ".git">> >>

\* rc = create_github_repo(...); if rc != 0: return err(...)
CreateGithubRepo ==
    /\ vc_pc = "create"
    /\ \E rc1 \in ReturnCodes, rc2 \in ReturnCodes :
         LET created == Ran(RepoCreateCommand(vc_in), rc1)
             added   == Ran(RemoteAddCommand(vc_in), rc2)
             rc      == IF rc1 # 0 THEN rc1 ELSE rc2
         IN  /\ vc_cmds' = IF rc1 # 0 THEN Append(vc_cmds, created)
                           ELSE vc_cmds \o <<created, added>>
             /\ vc_calls' = Append(vc_calls, Ran("create_github_repo", rc))
             /\ IF StepFailed(rc)
                THEN VcFail("Failed to create GitHub repository")
                ELSE /\ vc_pc' = "push"
                     /\ UNCHANGED <<vc_stderr, vc_rc>>
    /\ UNCHANGED <<vc_in, vc_i>>
    /\ VcFrame

\* rc = git_push(project_dir); if rc != 0: return err(...)
GitPush ==
    /\ vc_pc = "push"
    /\ \E rc \in ReturnCodes :
         /\ vc_cmds' = Append(vc_cmds, Ran(<<"git", "push", "-u", "origin", "main">>, rc))
         /\ vc_calls' = Append(vc_calls, Ran("git_push", rc))
         /\ IF StepFailed(rc)
            THEN VcFail("Failed to push to GitHub")
            ELSE /\ vc_pc' = "ruleset"
                 /\ UNCHANGED <<vc_stderr, vc_rc>>
    /\ UNCHANGED <<vc_in, vc_i>>
    /\ VcFrame

\* rc = setup_ruleset(...): the list request, then PUT on the id it printed
\* or POST; the return code is the second request's.  if rc != 0: return
\* err(...), else return 0.
SetupRuleset ==
    /\ vc_pc = "ruleset"
    /\ \E listed \in {0, 1}, found \in BOOLEAN, rc \in ReturnCodes :
         LET method == IF listed = 0 /\ found THEN "PUT" ELSE "POST"
         IN  /\ vc_cmds' = vc_cmds \o
                   << Ran(<<"gh", "api", "rulesets", "--jq">>, listed),
                      Ran(<<"gh", "api", "rulesets", "--method", method>>, rc) >>
             /\ vc_calls' = Append(vc_calls, Ran("setup_ruleset", rc))
             /\ IF StepFailed(rc)
                THEN VcFail("Failed to configure rulesets")
                ELSE /\ VcReturn(0)
                     /\ UNCHANGED vc_stderr
    /\ UNCHANGED <<vc_in, vc_i>>
    /\ VcFrame

VcNext ==
    \/ GitInitCommand
    \/ CreateGithubRepo
    \/ GitPush
    \/ SetupRuleset

SpecGit == VcInit /\ [][VcNext]_vars

\* The helper steps of setup_github, in the order of its code.
SETUP_STEPS == <<"create_github_repo", "git_push", "setup_ruleset">>

\* C23: setup_github calls create_github_repo, git_push and setup_ruleset in
\* that order, each at most once; a step is called only when every step
\* before it returned 0, so nothing runs after the first non-zero result; and
\* setup_github returns 0 exactly when all three were called and returned 0.
C23_SetupGithubStopsAtFirstFailure ==
    vc_in.op = "setup_github" =>
        /\ Len(vc_calls) <= Len(SETUP_STEPS)
        /\ \A i \in 1..Len(vc_calls) :
               /\ vc_calls[i].cmd = SETUP_STEPS[i]
               /\ i < Len(vc_calls) => vc_calls[i].rc = 0
        /\ vc_pc = "done" =>
               /\ vc_rc.kind = "returned"
               /\ vc_rc.code = 0 <=>
                      /\ Len(vc_calls) = Len(SETUP_STEPS)
                      /\ \A i \in 1..Len(vc_calls) : vc_calls[i].rc = 0
               /\ vc_rc.code # 0 =>
                      /\ vc_calls[Len(vc_calls)].rc # 0
                      /\ Len(vc_stderr) = 1

\* C23 witness: repository creation succeeded, the push failed, and
\* setup_github returned without calling setup_ruleset.
C23_Witness ==
    /\ vc_in.op = "setup_github"
    /\ vc_pc = "done"
    /\ Len(vc_calls) = 2
    /\ vc_calls[2] = Ran("git_push", 128)
    /\ vc_rc = [kind |-> "returned", code |-> 1]

\* C24: git_init runs 'git init', 'git add .', 'git commit' in that order;
\* no command runs after one that exited non-zero; the function returns the
\* return code of that command, and 0 only when all three exited with 0.
C24_GitInitStopsAtFirstFailure ==
    vc_in.op = "git_init" =>
        /\ Len(vc_cmds) <= Len(GIT_INIT_COMMANDS)
        /\ \A i \in 1..Len(vc_cmds) :
               /\ vc_cmds[i].cmd = GIT_INIT_COMMANDS[i]
               /\ vc_cmds[i].cmd[1] = "git"
               /\ i < Len(vc_cmds) => vc_cmds[i].rc = 0
        /\ vc_pc = "done" =>
               /\ vc_rc.kind = "returned"
               /\ Len(vc_cmds) > 0
               /\ vc_rc.code = vc_cmds[Len(vc_cmds)].rc
               /\ vc_rc.code = 0 => Len(vc_cmds) = Len(GIT_INIT_COMMANDS)

\* C24 witness: 'git init' succeeded, 'git add .' exited with 128 and git_init
\* returned 128 without running 'git commit'.
C24_Witness ==
    /\ vc_in.op = "git_init"
    /\ vc_pc = "done"
    /\ Len(vc_cmds) = 2
    /\ vc_cmds[2] = Ran(<<"git", "add", ".">>, 128)
    /\ vc_rc = [kind |-> "returned", code |-> 128]

\* C25: when the user declines the confirmation of the interactive flow, no
\* init, git or GitHub step has run, and the target path still does not
\* exist: the filesystem is as it was before the run.
C25_DeclineLeavesNothingBehind ==
    Declined =>
        /\ "run_init" \notin Called
        /\ "git_init" \notin Called
        /\ "setup_github" \notin Called
        /\ sc_target = "absent"

\* The three early checks of a run with github enabled.
GH_CHECKS == {"check_gh_installed", "check_gh_authenticated", "detect_gh_owner"}

\* One of the early gh checks failed: gh is not installed, gh is not
\* authenticated, or no owner was given and none was detected.
GhCheckFailed ==
    /\ sc_in.github
    /\ Len(sc_stderr) > 0
    /\ LastError \in { <<"error: ">> \o MsgGhNotInstalled,
                       <<"error: ">> \o MsgGhNotAuthenticated,
                       <<"error: ">> \o MsgNoOwner }

\* C26: with github enabled, the gh checks come before the tag lookup and the
\* download, which start only with gh installed and authenticated and an owner
\* known; when a check fails, scaffold returns non-zero with one error line
\* and no lookup, download, target directory, init or git step has happened.
C26_GhChecksComeFirst ==
    /\ (sc_in.github /\ {"get_latest_release_tag", "download_tarball"} \cap Called # {}) =>
           /\ CalledBefore("check_gh_installed", "get_latest_release_tag")
           /\ CalledBefore("check_gh_authenticated", "get_latest_release_tag")
           /\ CalledBefore("detect_gh_owner", "get_latest_release_tag")
           /\ CalledBefore("check_gh_authenticated", "download_tarball")
           /\ {"check_gh_installed", "check_gh_authenticated"} \subseteq Called
           /\ ~Falsy(sc_owner)
    /\ GhCheckFailed =>
           /\ sc_pc = "done"
           /\ sc_rc.kind = "returned" /\ sc_rc.code # 0
           /\ Len(sc_stderr) = 1
           /\ Called \subseteq GH_CHECKS
           /\ sc_target = "absent"

\* C26 witness: gh is installed and authenticated, no owner was given and
\* none could be detected; scaffold has returned.
C26_Witness ==
    /\ GhCheckFailed
    /\ sc_pc = "done"
    /\ Called = GH_CHECKS
    /\ sc_owner = "None"
    /\ ~sc_in.pinned

\* The latest-release lookup was made and gave no tag.
LookupFailed == sc_pc # "idle" /\ sc_lookup.kind \notin {"none", "tag"}

\* C27: every failure of the latest-release lookup (no connection, a timeout
\* also while the body is read, an HTTP error, a response without a usable
\* 'tag_name') makes scaffold return non-zero with a single 'error: ...'
\* line; no exception escapes and no download is attempted.
C27_LookupFailuresAreReported ==
    LookupFailed =>
        /\ sc_pc = "done"
        /\ sc_rc.kind = "returned"
        /\ sc_rc.kind = "returned" => sc_rc.code # 0
        /\ Len(sc_stderr) = 1
        /\ Len(sc_stderr) = 1 => LastError[1] = "error: "
        /\ "download_tarball" \notin Called

\* init_project ran to its end and returned False.
InitReturnedFalse == Call("init_project", "False") \in Range(sc_calls)

\* C28: when init_project runs to its end but returns False, scaffold reports
\* 'Project initialization failed' as its only error, returns non-zero and
\* calls neither git_init nor setup_github: the rewritten project stays on
\* disk without a git repository.
C28_SoftWarningStopsScaffold ==
    InitReturnedFalse =>
        /\ sc_pc = "done"
        /\ sc_rc.kind = "returned" /\ sc_rc.code # 0
        /\ sc_stderr = << <<"error: ">> \o MsgInitFailed >>
        /\ "check_git_installed" \notin Called
        /\ "git_init" \notin Called
        /\ "setup_github" \notin Called
        /\ sc_calls[Len(sc_calls)].fn = "init_project"
        /\ sc_target = "project"

\* C28 witness: a run with the github flag and complete kwargs in which
\* run_init returned False; the project is on disk and scaffold has returned 1.
C28_Witness ==
    /\ InitReturnedFalse
    /\ sc_in.github
    /\ sc_kwargs.rest
    /\ sc_rc = [kind |-> "returned", code |-> 1]

\* The atoms of a package or directory name of the scaffold runs.
NameText(name) ==
    CASE name = "my-pkg" -> <<"my", "-", "pkg">>
      [] name = "proj"   -> <<"proj">>
      [] OTHER           -> <<name>>

\* The github_repo of the config that a run_init call builds: the repo_path
\* '{github_owner}/{kebab_name}' that the substitution engine writes.
ConfigRepoPath(call) ==
    ProjectConfig(NameText(call.name), <<>>, <<>>, <<call.arg>>, <<>>, <<>>,
                  FALSE).github_repo

\* The f'{owner}/{name}' that create_github_repo hands to 'gh repo create'
\* for a setup_github call.
CreatedRepoPath(call) == <<call.arg, "/">> \o NameText(call.name)

\* C29: in every successful run with github enabled, the 'owner/name' of the
\* repository that setup_github creates equals the repo_path
\* '{github_owner}/{kebab_name}' written into the project files, whatever the
\* target directory name and the package name are.
C29_RepositoryIdentityIsConsistent ==
    (Succeeded /\ sc_in.github) =>
        \A i \in CallsOf("run_init"), j \in CallsOf("setup_github") :
            CreatedRepoPath(sc_calls[j]) = ConfigRepoPath(sc_calls[i])

\* A configuration none of whose values contains text of the template.
PlainConfig ==
    ProjectConfig(<<"my", "-", "pkg">>, <<"Jane Doe">>,
                  <<"jane", "@", "example.com">>, <<"jane">>,
                  <<"A test package">>, <<"none">>, FALSE)

\* Every template reference of the tree occurs in a form that a substitution
\* rule covers: with values that contain no template text, a run of
\* update_project_references leaves nothing for the scan to find.
AllReferencesCovered(t) ==
    find_stale_references(
        update_project_references(t, PlainConfig, find_project_files(t))) = {}

\* C30: for every configuration whose fields pass their validators and every
\* tree whose template references are all covered by a substitution rule,
\* find_stale_references returns no file after update_project_references: no
\* user-supplied owner, name or author is reported as a stale reference.
C30_ValidConfigLeavesNoStaleReference ==
    (su_run >= 1 /\ AllReferencesCovered(tree0)) =>
        find_stale_references(su_first) = {}

=============================================================================
